---- MODULE Spec2Model ----
(***************************************************************************)
(* Offline-first synchronisation core of the pre-shift-check PWA:           *)
(* SyncService (connectivity monitor, initialSync, syncQueue),              *)
(* DatabaseService (local Dexie tables), the components that write the      *)
(* local store (check form, pending list, edit form) and the server's       *)
(* upsert store.  Every asynchronous method is cut at its awaits: one       *)
(* action is the code that runs between two suspension points.              *)
(***************************************************************************)
EXTENDS Integers, Sequences, FiniteSets, TLC

\* ------------------------------------------------------------------ bounds
MaxEvents == 1
MaxFaults == 2
MaxDrains == 2
MaxRuns == 1
MaxProbes == 2
MaxTimers == 2
NumItems == 2
MaxFailures == 1

EventIds == 1..MaxEvents
FaultIds == 1..MaxFaults
Drains == 1..MaxDrains
Runs == 1..MaxRuns
Items == 1..NumItems
Assets == {"a1"}

\* ------------------------------------------------------------------ values
NULL == "null"
NoError == "undefined"
NetworkError == "Network error: Unable to connect to server"
RecordError == "Unknown error"
ReporterName == "driver"
MissingId == 0
UnknownId == -1
NoCaller == 0
RetryCaller == -1
StorageError == "DatabaseClosedError"
TimeoutError == "Timeout has occurred"
\* null where the code holds a record or null
NoRecord == [id |-> MissingId]

\* syncMessage texts of SyncService
MsgNone == ""
MsgSyncing == "Syncing data..."
MsgUploading == "Uploading pending checks..."
MsgFetching == "Fetching failure reports..."
MsgCompleted == "Sync completed"
MsgNoReporter == "Please set your name to enable sync"

\* ------------------------------------------------------------------ tables
\* A Dexie table / a Map: a function whose domain is the set of stored keys.
EmptyTable == [k \in {} |-> NULL]

put(table, id, rec) ==
  [k \in (DOMAIN table) \cup {id} |-> IF k = id THEN rec ELSE table[k]]

deleteKeys(table, ids) ==
  [k \in (DOMAIN table) \ ids |-> table[k]]

RECURSIVE bulkPut(_, _)
bulkPut(table, recs) ==
  IF recs = <<>> THEN table
  ELSE bulkPut(put(table, Head(recs).id, Head(recs)), Tail(recs))

\* The keys of S in ascending order.
RECURSIVE SortedSeq(_)
SortedSeq(S) ==
  IF S = {} THEN <<>>
  ELSE LET m == CHOOSE x \in S : \A y \in S : x <= y
       IN  <<m>> \o SortedSeq(S \ {m})

RECURSIVE MapSeq(_, _)
MapSeq(table, keys) ==
  IF keys = <<>> THEN <<>> ELSE <<table[Head(keys)]>> \o MapSeq(table, Tail(keys))

SeqIds(recs) == {recs[i].id : i \in 1..Len(recs)}

\* ------------------------------------------------------------------ records
calculateCheckResult(responses) ==
  IF \A i \in 1..Len(responses) : responses[i] = "YES" THEN "PASS" ELSE "FAIL"

ResponseSeqs == [Items -> {"YES", "NO"}]

\* PreShiftCheckComponent.createEvent
createEvent(eventId, assetId, responses, now) ==
  [id |-> eventId, asset_id |-> assetId, responses |-> responses,
   result |-> calculateCheckResult(responses), completed_at |-> now,
   sync_status |-> "PENDING", last_error |-> NoError]

\* one Fault of createFaultsForFailedItems / updateFaults
createFault(faultId, assetId, eventId, item) ==
  [id |-> faultId, asset_id |-> assetId, status |-> "OPEN",
   source_event_id |-> eventId, item_id |-> item,
   sync_status |-> "PENDING", last_error |-> NoError]

\* the client-only fields are removed before transmission
stripEvent(e) ==
  [id |-> e.id, asset_id |-> e.asset_id, responses |-> e.responses,
   result |-> e.result, completed_at |-> e.completed_at]

stripFault(f) ==
  [id |-> f.id, asset_id |-> f.asset_id, status |-> f.status,
   source_event_id |-> f.source_event_id, item_id |-> f.item_id]

RECURSIVE stripEvents(_)
stripEvents(recs) ==
  IF recs = <<>> THEN <<>> ELSE <<stripEvent(Head(recs))>> \o stripEvents(Tail(recs))

RECURSIVE stripFaults(_)
stripFaults(recs) ==
  IF recs = <<>> THEN <<>> ELSE <<stripFault(Head(recs))>> \o stripFaults(Tail(recs))

\* ------------------------------------------------------------------ DatabaseService
IsPending(rec) == rec.sync_status \in {"PENDING", "ERROR"}

\* a read of the waiting records that leaves out the ones marked ERROR
getNew(table) ==
  MapSeq(table, SortedSeq({k \in DOMAIN table : table[k].sync_status = "PENDING"}))

\* where('sync_status').anyOf(['PENDING','ERROR']).toArray(): index order,
\* the ERROR keys before the PENDING keys, each group by primary key.
getPending(table) ==
  MapSeq(table,
         SortedSeq({k \in DOMAIN table : table[k].sync_status = "ERROR"})
         \o SortedSeq({k \in DOMAIN table : table[k].sync_status = "PENDING"}))

countPending(table) == Cardinality({k \in DOMAIN table : IsPending(table[k])})

\* DatabaseService.refreshCacheStats: the four counts it publishes
refreshCacheStats(assetIds, checklistIds, evs, fts) ==
  [assets |-> Cardinality(assetIds), checklists |-> Cardinality(checklistIds),
   events |-> Cardinality(DOMAIN evs), faults |-> Cardinality(DOMAIN fts)]

\* an upload queue that forgets the records it has sent
dropAll(table, ids, status, error) ==
  deleteKeys(table, {ids[i] : i \in DOMAIN ids})

\* Table.update(key, changes): no record with that key, no change.
updateSyncStatus(table, id, status, error) ==
  IF id \in DOMAIN table
  THEN [table EXCEPT ![id].sync_status = status, ![id].last_error = error]
  ELSE table

\* a loop that stops after its first update
updateFirst(table, ids, status, error) ==
  IF ids = <<>> THEN table
  ELSE updateSyncStatus(table, Head(ids), status, error)

RECURSIVE updateAll(_, _, _, _)
updateAll(table, ids, status, error) ==
  IF ids = <<>> THEN table
  ELSE updateAll(updateSyncStatus(table, Head(ids), status, error), Tail(ids), status, error)

\* the errors of the response are not applied
ignoreErrors(table, errors) == table

RECURSIVE updateErrors(_, _)
updateErrors(table, errors) ==
  IF errors = <<>> THEN table
  ELSE updateErrors(updateSyncStatus(table, Head(errors).id, "ERROR", Head(errors).error),
                    Tail(errors))

\* an edit that leaves the faults of the event in place
keepFaultsOfEvent(table, eventId) == table

deleteFaultsOfEvent(table, eventId) ==
  deleteKeys(table, {k \in DOMAIN table : table[k].source_event_id = eventId})

markSynced(f) ==
  [id |-> f.id, asset_id |-> f.asset_id, status |-> f.status,
   source_event_id |-> f.source_event_id, item_id |-> f.item_id,
   sync_status |-> "SYNCED", last_error |-> NoError]

RECURSIVE markAllSynced(_)
markAllSynced(recs) ==
  IF recs = <<>> THEN <<>> ELSE <<markSynced(Head(recs))>> \o markAllSynced(Tail(recs))

replaceSyncedFaultsForAsset(table, assetId, serverFaults) ==
  bulkPut(deleteKeys(table, {k \in DOMAIN table :
                               /\ table[k].asset_id = assetId
                               /\ table[k].sync_status = "SYNCED"}),
          markAllSynced(serverFaults))

saveLastFailedCheck(cache, assetId, event) ==
  IF event # NoRecord THEN put(cache, assetId, [event EXCEPT !.asset_id = assetId])
  ELSE deleteKeys(cache, {assetId})

\* ------------------------------------------------------------------ server
\* POST /api/events/batch and /api/faults/batch: the loop body applied in
\* array order; bad is the set of positions whose store access throws.
RECURSIVE batchUpsert(_, _, _, _)
batchUpsert(store, recs, bad, i) ==
  IF i > Len(recs) THEN [store |-> store, errors |-> <<>>]
  ELSE LET rec == recs[i]
           here == IF rec.id = MissingId
                   THEN [store |-> store,
                         errors |-> <<[id |-> UnknownId, error |-> "id is required"]>>]
                   ELSE IF i \in bad
                   THEN [store |-> store,
                         errors |-> <<[id |-> rec.id, error |-> RecordError]>>]
                   ELSE [store |-> put(store, rec.id, rec), errors |-> <<>>]
           rest == batchUpsert(here.store, recs, bad, i + 1)
       IN  [store |-> rest.store, errors |-> here.errors \o rest.errors]

\* GET /api/events/last-failed/:asset_id
lastFailedCheck(store, assetId) ==
  LET mine == {k \in DOMAIN store : store[k].asset_id = assetId}
  IN  IF mine = {} THEN NoRecord
      ELSE LET last == CHOOSE k \in mine :
                         \A j \in mine : store[j].completed_at <= store[k].completed_at
           IN  IF store[last].result = "PASS" THEN NoRecord ELSE store[last]

\* GET /api/faults?asset_id=&status=OPEN
openFaultsByAsset(store, assetId) ==
  MapSeq(store, SortedSeq({k \in DOMAIN store :
                             /\ store[k].asset_id = assetId
                             /\ store[k].status = "OPEN"}))

\* the server's fixed reference data (mock-data.ts): every asset, and one
\* ACTIVE and one INACTIVE checklist
Checklists == [c1 |-> "ACTIVE", c2 |-> "INACTIVE"]

\* Set insertion order of the asset ids of a batch (touchedAssetIds)
RECURSIVE addAll(_, _)
addAll(order, recs) ==
  IF recs = <<>> THEN order
  ELSE addAll(IF \E i \in 1..Len(order) : order[i] = Head(recs).asset_id
              THEN order ELSE Append(order, Head(recs).asset_id),
              Tail(recs))

\* the asset ids of the uploaded events alone
assetsOfEvents(pendingEvents, pendingFaults) == addAll(<<>>, pendingEvents)

touchedAssetIds(pendingEvents, pendingFaults) ==
  addAll(addAll(<<>>, pendingEvents), pendingFaults)

\* successIds of syncEvents / syncFaults, in batch order
RECURSIVE successIds(_, _)
successIds(recs, errors) ==
  IF recs = <<>> THEN <<>>
  ELSE (IF \E i \in 1..Len(errors) : errors[i].id = Head(recs).id
        THEN <<>> ELSE <<Head(recs).id>>) \o successIds(Tail(recs), errors)

RECURSIVE idsOf(_)
idsOf(recs) ==
  IF recs = <<>> THEN <<>> ELSE <<Head(recs).id>> \o idsOf(Tail(recs))

\* server clock at start, and the empty request and response slots
ServerStart == 1
NoRequest == [kind |-> "none"]
NoReply == [status |-> 0]

\* ------------------------------------------------------------------ state
VARIABLES
  navigatorOnLine,    \* navigator.onLine
  isOnline,           \* SyncService._isOnline
  autoSyncIntervalId, \* SyncService.autoSyncIntervalId is set
  activeTimers,       \* intervals created by startAutoSync and not cleared
  probes,             \* checkConnectivity calls awaiting healthCheck, by wasOnline
  syncState,          \* SyncService._syncState
  syncMessage,        \* SyncService._syncMessage
  syncInProgress,     \* SyncService.syncInProgress
  drains,             \* syncQueue() invocations suspended at an await
  runs,               \* initialSync() invocations suspended at an await
  events,             \* db.events
  faults,             \* db.faults
  lastFailedChecks,   \* db.lastFailedChecks
  localAssets,        \* keys of db.assets
  localChecklists,    \* keys of db.activeChecklists
  reporterName,       \* appMeta reporterName
  lastSyncAt,         \* appMeta lastSyncAt is set
  pendingEventsCount, \* DatabaseService._pendingEventsCount
  pendingFaultsCount, \* DatabaseService._pendingFaultsCount
  srvEvents,          \* server db.events
  srvFaults,          \* server db.faults
  srvClock,           \* server wall clock, the last value of `now`
  srvRequest,         \* body of the last upsert request the server handled
  srvReply,           \* response the server sent to it
  ui,                 \* the component on screen and what it loaded
  nextEventId,        \* next uuid for an event, also the wall clock of completed_at
  nextFaultId,        \* next uuid for a fault
  calm,               \* the environment stopped failing (network, storage, user edits)
  failures,           \* network and storage calls that have failed so far
  edgeSyncs,          \* initialSync() calls of checkConnectivity since the state went online
  boot,               \* DatabaseService.initializeSignals() suspended at an await
  isInitialized,      \* DatabaseService._isInitialized
  signalReporterName, \* DatabaseService._reporterName
  signalLastSyncAt,   \* DatabaseService._lastSyncAt is set
  cacheStats          \* DatabaseService._assetsCount, _checklistsCount, _eventsCount, _faultsCount

connVars == <<navigatorOnLine, isOnline, autoSyncIntervalId, activeTimers, probes, edgeSyncs>>
engineVars == <<syncState, syncMessage, syncInProgress, drains, runs>>
storeVars == <<events, faults, lastFailedChecks, localAssets, localChecklists,
               reporterName, lastSyncAt, pendingEventsCount, pendingFaultsCount>>
apiVars == <<srvClock, srvRequest, srvReply>>
serverVars == <<srvEvents, srvFaults, apiVars>>
userVars == <<ui, nextEventId, nextFaultId>>
envVars == <<calm, failures>>
signalVars == <<boot, isInitialized, signalReporterName, signalLastSyncAt, cacheStats>>
vars == <<connVars, engineVars, storeVars, serverVars, userVars, envVars, signalVars>>

IdleDrain ==
  [pc |-> "idle", caller |-> NoCaller, events |-> <<>>, faults |-> <<>>,
   errors |-> <<>>, error |-> NoError, todo |-> <<>>, failed |-> FALSE]

IdleRun ==
  [pc |-> "idle", assets |-> {}, todo |-> {}, queued |-> {}, unsent |-> {},
   drained |-> FALSE, failed |-> FALSE, answers |-> EmptyTable, uploadError |-> NoError]

OtherScreen == [screen |-> "other", events |-> {}, faults |-> {}, event |-> NoRecord]

\* initializeSignals(): the position of initWithTimeout() (main), the five
\* second timer it is raced against, and the position of the catch block
BootStart ==
  [main |-> "open", timer |-> "armed", fallback |-> "none", isOpen |-> FALSE,
   mainLastSync |-> FALSE, fallbackLastSync |-> FALSE]

BootDone ==
  [main |-> "done", timer |-> "fired", fallback |-> "none", isOpen |-> TRUE,
   mainLastSync |-> FALSE, fallbackLastSync |-> FALSE]

\* initialization went through: every signal shows what the store holds
SignalsLoaded ==
  /\ boot = BootDone
  /\ isInitialized = TRUE
  /\ signalReporterName = reporterName
  /\ signalLastSyncAt = lastSyncAt
  /\ cacheStats = refreshCacheStats(localAssets, localChecklists, events, faults)

Init ==
  /\ navigatorOnLine \in BOOLEAN
  /\ isOnline = FALSE
  /\ autoSyncIntervalId = FALSE
  /\ activeTimers = 0
  \* setupConnectivityCheck: checkConnectivity() is called from the constructor
  /\ probes = [w \in BOOLEAN |-> IF navigatorOnLine /\ ~w THEN 1 ELSE 0]
  /\ edgeSyncs = 0
  /\ syncState = "idle"
  /\ syncMessage = MsgNone
  /\ syncInProgress = FALSE
  /\ drains = [q \in Drains |-> IdleDrain]
  /\ runs = [r \in Runs |-> IdleRun]
  /\ events = EmptyTable
  /\ faults = EmptyTable
  /\ lastFailedChecks = EmptyTable
  /\ localAssets = {}
  /\ localChecklists = {}
  /\ reporterName = NULL
  /\ lastSyncAt = FALSE
  /\ pendingEventsCount = 0
  /\ pendingFaultsCount = 0
  /\ srvEvents = EmptyTable
  /\ srvFaults = EmptyTable
  /\ srvClock = ServerStart
  /\ srvRequest = NoRequest
  /\ srvReply = NoReply
  /\ ui = OtherScreen
  /\ nextEventId = 1
  /\ nextFaultId = 1
  /\ calm = FALSE
  /\ failures = 0
  /\ SignalsLoaded

\* outcomes of a network or storage call the environment can still produce
CanFail == ~calm /\ failures < MaxFailures
Outcomes == IF CanFail THEN {"ok", "fail"} ELSE {"ok"}
PostOutcomes == IF CanFail THEN {"ok", "lost", "timeout"} ELSE {"ok"}
BadSets(recs) == IF CanFail THEN SUBSET (1..Len(recs)) ELSE {{}}
\* the call with outcome o is counted when it failed
Counted(failed) == failures' = failures + (IF failed THEN 1 ELSE 0)

\* ------------------------------------------------------------------ calls
FreeDrains == {q \in Drains : drains[q].pc = "idle"}
FreeRuns == {r \in Runs : runs[r].pc = "idle"}
Least(S) == CHOOSE x \in S : \A y \in S : x <= y

\* a syncQueue() that does not look at the online state
ignoresOnline == ~syncInProgress

\* syncQueue() up to its first await: the two guards, then getReporter()
syncQueueEnters == ~syncInProgress /\ isOnline

syncQueue(ds, caller) ==
  IF syncQueueEnters
  THEN [ds EXCEPT ![Least(FreeDrains)] = [IdleDrain EXCEPT !.pc = "getReporter",
                                                           !.caller = caller]]
  ELSE ds

CanCallSyncQueue == syncQueueEnters => FreeDrains # {}

\* the PENDING and ERROR events the server has not received as they are
Unsent ==
  {k \in DOMAIN events :
     /\ IsPending(events[k])
     /\ (k \notin DOMAIN srvEvents \/ srvEvents[k] # stripEvent(events[k]))}

\* initialSync() up to its first await, called when the online state is online
initialSyncRuns(online) == IF online THEN [runs EXCEPT ![Least(FreeRuns)] =
                              [IdleRun EXCEPT !.pc = "fetch",
                                              !.queued = Unsent, !.unsent = Unsent]]
                           ELSE runs
initialSyncState(online) == IF online THEN "syncing" ELSE syncState
initialSyncMessage(online) == IF online THEN MsgSyncing ELSE syncMessage
CanCallInitialSync(online) == online => FreeRuns # {}

\* startAutoSync / stopAutoSync on (autoSyncIntervalId, activeTimers)
stopAutoSync(t) ==
  IF t.id THEN [id |-> FALSE, active |-> t.active - 1] ELSE t

\* an interval created without clearing the previous one
startWithoutStop(t) ==
  [id |-> TRUE, active |-> t.active + 1]

startAutoSync(t) ==
  [id |-> TRUE, active |-> stopAutoSync(t).active + 1]

Timer == [id |-> autoSyncIntervalId, active |-> activeTimers]

\* ------------------------------------------------------------------ ConnectivityMonitor
InFlight == probes[TRUE] + probes[FALSE]

\* checkConnectivity() that believes navigator.onLine without a probe
trustNavigator(nav) ==
  /\ isOnline' = nav
  /\ UNCHANGED probes
  /\ edgeSyncs' = (IF nav THEN edgeSyncs ELSE 0)

\* checkConnectivity() up to the await of healthCheck(), nav = navigator.onLine
\* (a connection of type 'none' is the same early return)
checkConnectivity(nav) ==
  /\ nav => InFlight < MaxProbes
  /\ isOnline' = (IF nav THEN isOnline ELSE FALSE)
  /\ probes' = (IF nav THEN [probes EXCEPT ![isOnline] = @ + 1] ELSE probes)
  /\ edgeSyncs' = (IF nav THEN edgeSyncs ELSE 0)

\* the 10 s interval of setupConnectivityCheck, or a connection 'change' event
ConnectivityCheck ==
  /\ checkConnectivity(navigatorOnLine)
  /\ UNCHANGED <<navigatorOnLine, autoSyncIntervalId, activeTimers>>
  /\ UNCHANGED <<engineVars, storeVars, signalVars, serverVars, userVars, envVars>>

\* window 'online' event
OnlineEvent ==
  /\ ~navigatorOnLine
  /\ navigatorOnLine' = TRUE
  /\ checkConnectivity(TRUE)
  /\ UNCHANGED <<autoSyncIntervalId, activeTimers>>
  /\ UNCHANGED <<engineVars, storeVars, signalVars, serverVars, userVars, envVars>>

\* window 'offline' event
OfflineEvent ==
  /\ ~calm
  /\ navigatorOnLine
  /\ navigatorOnLine' = FALSE
  /\ isOnline' = FALSE
  /\ autoSyncIntervalId' = stopAutoSync(Timer).id
  /\ activeTimers' = stopAutoSync(Timer).active
  /\ edgeSyncs' = 0
  /\ UNCHANGED probes
  /\ UNCHANGED <<engineVars, storeVars, signalVars, serverVars, userVars, envVars>>

forceOffline ==
  /\ ~calm
  /\ isOnline' = FALSE
  /\ autoSyncIntervalId' = stopAutoSync(Timer).id
  /\ activeTimers' = stopAutoSync(Timer).active
  /\ edgeSyncs' = 0
  /\ UNCHANGED <<navigatorOnLine, probes>>
  /\ UNCHANGED <<engineVars, storeVars, signalVars, serverVars, userVars, envVars>>

\* checkConnectivity() after the await: healthCheck() returned isConnected
\* (healthCheck catches every error and returns false, so the catch of
\* checkConnectivity has the effect of isConnected = false)
HealthCheckReturns(wasOnline, isConnected) ==
  /\ probes[wasOnline] > 0
  /\ probes' = [probes EXCEPT ![wasOnline] = @ - 1]
  /\ isOnline' = isConnected
  /\ IF isConnected /\ ~wasOnline
     THEN /\ CanCallInitialSync(TRUE)
          /\ activeTimers < MaxTimers
          /\ runs' = initialSyncRuns(TRUE)
          /\ syncState' = initialSyncState(TRUE)
          /\ syncMessage' = initialSyncMessage(TRUE)
          /\ autoSyncIntervalId' = startAutoSync(Timer).id
          /\ activeTimers' = startAutoSync(Timer).active
          /\ edgeSyncs' = (IF isOnline THEN edgeSyncs + 1 ELSE 1)
     ELSE /\ UNCHANGED <<runs, syncState, syncMessage, autoSyncIntervalId, activeTimers>>
          /\ edgeSyncs' = (IF isConnected THEN edgeSyncs ELSE 0)
  /\ Counted(~isConnected)
  /\ UNCHANGED <<navigatorOnLine, syncInProgress, drains>>
  /\ UNCHANGED <<storeVars, signalVars, serverVars, userVars, calm>>

HealthCheck ==
  \E wasOnline \in BOOLEAN : \E isConnected \in (IF CanFail THEN BOOLEAN ELSE {TRUE}) :
    HealthCheckReturns(wasOnline, isConnected)

\* the 2 min interval callback of startAutoSync
AutoSyncTick ==
  /\ activeTimers > 0
  /\ isOnline /\ ~syncInProgress
  /\ CanCallInitialSync(TRUE)
  /\ runs' = initialSyncRuns(TRUE)
  /\ syncState' = initialSyncState(TRUE)
  /\ syncMessage' = initialSyncMessage(TRUE)
  /\ UNCHANGED <<syncInProgress, drains>>
  /\ UNCHANGED <<connVars, signalVars, storeVars, serverVars, userVars, envVars>>

\* manualSync(): Sync Now on the dashboard, the pending list or the settings
manualSync ==
  /\ isOnline
  /\ CanCallInitialSync(isOnline)
  /\ runs' = initialSyncRuns(isOnline)
  /\ syncState' = initialSyncState(isOnline)
  /\ syncMessage' = initialSyncMessage(isOnline)
  /\ UNCHANGED <<syncInProgress, drains>>
  /\ UNCHANGED <<connVars, signalVars, storeVars, serverVars, userVars, envVars>>

\* ------------------------------------------------------------------ initialSync
\* a call that has returned keeps its record until the caller's continuation runs
Returned(rec) == [rec EXCEPT !.pc = "returned"]

\* await Promise.all([getAssets(), getAllChecklists()])
InitialSync_fetch(r) ==
  /\ runs[r].pc = "fetch"
  /\ \E o \in Outcomes :
       /\ Counted(o # "ok")
       /\ IF o = "ok"
          THEN /\ runs' = [runs EXCEPT ![r].pc = "save", ![r].assets = Assets]
               /\ UNCHANGED <<syncState, syncMessage>>
          ELSE /\ runs' = [runs EXCEPT ![r] = Returned([@ EXCEPT !.failed = TRUE])]
               /\ syncState' = "error"
               /\ syncMessage' = NetworkError
  /\ UNCHANGED <<syncInProgress, drains>>
  /\ UNCHANGED <<connVars, signalVars, storeVars, serverVars, userVars, calm>>

\* saveAssets, saveChecklists, then the call of syncQueue()
InitialSync_save(r) ==
  /\ runs[r].pc = "save"
  /\ CanCallSyncQueue
  /\ localAssets' = localAssets \cup runs[r].assets
  /\ localChecklists' = localChecklists
                          \cup {c \in DOMAIN Checklists : Checklists[c] = "ACTIVE"}
  /\ drains' = syncQueue(drains, r)
  /\ runs' = [runs EXCEPT ![r].pc = "awaitQueue"]
  /\ UNCHANGED <<syncState, syncMessage, syncInProgress>>
  /\ UNCHANGED <<events, faults, lastFailedChecks, reporterName, lastSyncAt,
                 pendingEventsCount, pendingFaultsCount>>
  /\ cacheStats' = refreshCacheStats(localAssets', localChecklists', events, faults)
  /\ UNCHANGED <<boot, isInitialized, signalReporterName, signalLastSyncAt>>
  /\ UNCHANGED <<connVars, serverVars, userVars, envVars>>

\* a syncQueue() call that is not awaited
NotAwaited(r) == {}

MyDrains(r) == {q \in Drains : drains[q].pc # "idle" /\ drains[q].caller = r}

\* the message of the error that a syncQueue() call of the set caught
ThrownBy(qs) ==
  IF \E q \in qs : drains[q].error # NoError
  THEN drains[CHOOSE q \in qs : drains[q].error # NoError].error
  ELSE NoError

\* syncQueue() has returned: fetchLastFailedChecksForAllAssets starts and
\* clears the cache
InitialSync_clearCache(r) ==
  /\ runs[r].pc = "awaitQueue"
  /\ \A q \in MyDrains(r) : drains[q].pc = "returned"
  /\ drains' = [q \in Drains |-> IF q \in MyDrains(r) THEN IdleDrain ELSE drains[q]]
  /\ syncMessage' = MsgFetching
  /\ lastFailedChecks' = EmptyTable
  /\ runs' = [runs EXCEPT ![r].pc = IF runs[r].assets = {} THEN "setMeta" ELSE "lastFailed",
                          ![r].todo = runs[r].assets,
                          ![r].failed = @ \/ \E q \in MyDrains(r) : drains[q].failed,
                          ![r].uploadError = ThrownBy(MyDrains(r))]
  /\ UNCHANGED <<syncState, syncInProgress>>
  /\ UNCHANGED <<events, faults, localAssets, localChecklists, reporterName, lastSyncAt,
                 pendingEventsCount, pendingFaultsCount>>
  /\ UNCHANGED <<connVars, signalVars, serverVars, userVars, envVars>>

\* getLastFailedCheck(asset) (null when the request fails), saveLastFailedCheck
InitialSync_lastFailed(r, a) ==
  /\ runs[r].pc = "lastFailed"
  /\ a \in runs[r].todo
  /\ \E o \in Outcomes :
       LET lastFailed == IF o = "ok" THEN lastFailedCheck(srvEvents, a) ELSE NoRecord
       IN  /\ Counted(o # "ok")
           /\ lastFailedChecks' = saveLastFailedCheck(lastFailedChecks, a, lastFailed)
           /\ runs' = [runs EXCEPT ![r].todo = @ \ {a},
                                   ![r].pc = IF runs[r].todo = {a} THEN "setMeta" ELSE @,
                                   ![r].failed = @ \/ o # "ok",
                                   ![r].answers = saveLastFailedCheck(@, a, lastFailed)]
  /\ UNCHANGED <<syncState, syncMessage, syncInProgress, drains>>
  /\ UNCHANGED <<events, faults, localAssets, localChecklists, reporterName, lastSyncAt,
                 pendingEventsCount, pendingFaultsCount>>
  /\ UNCHANGED <<connVars, signalVars, serverVars, userVars, calm>>

\* setMeta('lastSyncAt'), then the success state
InitialSync_setMeta(r) ==
  /\ runs[r].pc = "setMeta"
  /\ lastSyncAt' = TRUE
  /\ signalLastSyncAt' = TRUE
  /\ syncState' = "success"
  /\ syncMessage' = MsgCompleted
  /\ runs' = [runs EXCEPT ![r] = Returned(@)]
  /\ UNCHANGED <<syncInProgress, drains>>
  /\ UNCHANGED <<events, faults, lastFailedChecks, localAssets, localChecklists,
                 reporterName, pendingEventsCount, pendingFaultsCount>>
  /\ UNCHANGED <<boot, isInitialized, signalReporterName, cacheStats>>
  /\ UNCHANGED <<connVars, serverVars, userVars, envVars>>

\* the caller's continuation (manualSync().then(...), or nothing)
InitialSync_return(r) ==
  /\ runs[r].pc = "returned"
  /\ runs' = [runs EXCEPT ![r] = IdleRun]
  /\ UNCHANGED <<syncState, syncMessage, syncInProgress, drains>>
  /\ UNCHANGED <<connVars, signalVars, storeVars, serverVars, userVars, envVars>>

\* ------------------------------------------------------------------ syncQueue
\* a syncQueue() call that ended: its locals are gone, the caller's
\* continuation has not run yet
Ended(d, failed) ==
  [IdleDrain EXCEPT !.pc = "returned", !.caller = d.caller, !.failed = failed]

\* a catch of syncQueue() without the finally: the flag stays set
ThrownHolding(q, message) ==
  /\ syncState' = "error"
  /\ syncMessage' = message
  /\ UNCHANGED syncInProgress
  /\ drains' = [drains EXCEPT ![q] = [Ended(@, TRUE) EXCEPT !.error = message]]

\* the catch and finally of syncQueue(): error state, flag released, return
Thrown(q, message) ==
  /\ syncState' = "error"
  /\ syncMessage' = message
  /\ syncInProgress' = FALSE
  /\ drains' = [drains EXCEPT ![q] = [Ended(@, TRUE) EXCEPT !.error = message]]

\* a batch reached the server (or an event was deleted): its events are no
\* longer unsent for any run
Posted(rs, ids) == [r \in Runs |-> [rs[r] EXCEPT !.unsent = @ \ ids]]

\* const reporter = await this.db.getReporter(); getMeta returns null when the
\* read fails
SyncQueue_getReporter(q) ==
  /\ drains[q].pc = "getReporter"
  /\ \E o \in Outcomes :
       LET reporter == IF o = "ok" THEN reporterName ELSE NULL
       IN  /\ Counted(o # "ok")
           /\ IF reporter = NULL
              THEN /\ syncMessage' = MsgNoReporter
                   /\ drains' = [drains EXCEPT ![q] = Ended(@, o # "ok")]
                   /\ UNCHANGED <<syncState, syncInProgress>>
              ELSE /\ syncInProgress' = TRUE
                   /\ syncState' = "syncing"
                   /\ syncMessage' = MsgUploading
                   /\ drains' = [drains EXCEPT ![q].pc = "getPendingEvents"]
  /\ UNCHANGED runs
  /\ UNCHANGED <<connVars, signalVars, storeVars, serverVars, userVars, calm>>

\* a syncQueue() that reads and sends the pending faults first
SyncQueue_faultsFirst(q) ==
  /\ drains[q].pc = "getPendingEvents"
  /\ drains' = [drains EXCEPT ![q].faults = getPending(faults),
                              ![q].events = getPending(events),
                              ![q].pc = IF getPending(faults) # <<>> THEN "postFaults"
                                        ELSE "getPendingFaults"]
  /\ UNCHANGED <<syncState, syncMessage, syncInProgress, runs>>
  /\ UNCHANGED <<connVars, signalVars, storeVars, serverVars, userVars, envVars>>

\* const pendingEvents = await this.db.getPendingEvents(); syncEvents posts them
SyncQueue_getPendingEvents(q) ==
  /\ drains[q].pc = "getPendingEvents"
  /\ \E o \in Outcomes :
       /\ Counted(o # "ok")
       /\ IF o = "ok"
          THEN LET pendingEvents == getPending(events)
               IN  /\ drains' = [drains EXCEPT
                                   ![q].events = pendingEvents,
                                   ![q].pc = IF pendingEvents # <<>> THEN "postEvents"
                                             ELSE "getPendingFaults"]
                   /\ runs' = (IF drains[q].caller \in Runs
                               THEN [runs EXCEPT ![drains[q].caller].drained = TRUE]
                               ELSE runs)
                   /\ UNCHANGED <<syncState, syncMessage, syncInProgress>>
          ELSE /\ Thrown(q, StorageError)
               /\ UNCHANGED runs
  /\ UNCHANGED <<connVars, signalVars, storeVars, serverVars, userVars, calm>>

\* POST /api/events/batch: the request is lost, or the server applies the batch
\* and the response arrives ("ok") or is lost ("timeout")
PostEvents(q) ==
  /\ drains[q].pc = "postEvents"
  /\ \E o \in PostOutcomes : \E bad \in BadSets(drains[q].events) :
       LET result == batchUpsert(srvEvents, stripEvents(drains[q].events), bad, 1)
       IN  /\ Counted(o # "ok" \/ bad # {})
           /\ srvEvents' = (IF o = "lost" THEN srvEvents ELSE result.store)
           /\ drains' = [drains EXCEPT
                ![q].pc = IF o = "ok" THEN "eventsResponse" ELSE "eventsFailed",
                ![q].errors = IF o = "ok" THEN result.errors ELSE <<>>,
                ![q].error = IF o = "ok" THEN NoError
                             ELSE IF o = "lost" THEN NetworkError ELSE TimeoutError]
           /\ runs' = (IF o = "lost" THEN runs
                       ELSE Posted(runs, SeqIds(drains[q].events)))
  /\ UNCHANGED <<srvFaults, apiVars, syncState, syncMessage, syncInProgress>>
  /\ UNCHANGED <<connVars, signalVars, storeVars, userVars, calm>>

\* syncEvents after the response: SYNCED for successIds, ERROR for result.errors
SyncQueue_eventsResponse(q) ==
  /\ drains[q].pc = "eventsResponse"
  /\ events' = updateErrors(updateAll(events,
                                      successIds(drains[q].events, drains[q].errors),
                                      "SYNCED", NoError),
                            drains[q].errors)
  /\ pendingEventsCount' = countPending(events')
  /\ pendingFaultsCount' = countPending(faults)
  /\ drains' = [drains EXCEPT ![q].pc = "getPendingFaults", ![q].errors = <<>>]
  /\ UNCHANGED <<faults, lastFailedChecks, localAssets, localChecklists, reporterName,
                 lastSyncAt>>
  /\ UNCHANGED <<syncState, syncMessage, syncInProgress, runs>>
  /\ UNCHANGED <<connVars, signalVars, serverVars, userVars, envVars>>

\* syncEvents' catch: every event of the batch ERROR, then the error is rethrown
SyncQueue_eventsFailed(q) ==
  /\ drains[q].pc = "eventsFailed"
  /\ events' = updateAll(events, idsOf(drains[q].events), "ERROR", drains[q].error)
  /\ pendingEventsCount' = countPending(events')
  /\ pendingFaultsCount' = countPending(faults)
  /\ Thrown(q, drains[q].error)
  /\ UNCHANGED <<faults, lastFailedChecks, localAssets, localChecklists, reporterName,
                 lastSyncAt>>
  /\ UNCHANGED runs
  /\ UNCHANGED <<connVars, signalVars, serverVars, userVars, envVars>>

\* after both uploads: the refresh loop over touchedAssetIds, or setMeta
AfterUploads(d, pendingFaults) ==
  LET touched == touchedAssetIds(d.events, pendingFaults)
  IN  [d EXCEPT !.events = <<>>, !.faults = <<>>, !.errors = <<>>, !.todo = touched,
                !.pc = IF touched = <<>> THEN "setMeta" ELSE "refreshFaults"]

\* const pendingFaults = await this.db.getPendingFaults(); syncFaults posts them
SyncQueue_getPendingFaults(q) ==
  /\ drains[q].pc = "getPendingFaults"
  /\ LET pendingFaults == getPending(faults)
     IN  drains' = [drains EXCEPT ![q] =
                      IF pendingFaults # <<>>
                      THEN [@ EXCEPT !.faults = pendingFaults, !.pc = "postFaults"]
                      ELSE AfterUploads(@, <<>>)]
  /\ UNCHANGED <<syncState, syncMessage, syncInProgress, runs>>
  /\ UNCHANGED <<connVars, signalVars, storeVars, serverVars, userVars, envVars>>

\* POST /api/faults/batch
PostFaults(q) ==
  /\ drains[q].pc = "postFaults"
  /\ \E o \in PostOutcomes : \E bad \in BadSets(drains[q].faults) :
       LET result == batchUpsert(srvFaults, stripFaults(drains[q].faults), bad, 1)
       IN  /\ Counted(o # "ok" \/ bad # {})
           /\ srvFaults' = (IF o = "lost" THEN srvFaults ELSE result.store)
           /\ drains' = [drains EXCEPT
                ![q].pc = IF o = "ok" THEN "faultsResponse" ELSE "faultsFailed",
                ![q].errors = IF o = "ok" THEN result.errors ELSE <<>>,
                ![q].error = IF o = "ok" THEN NoError
                             ELSE IF o = "lost" THEN NetworkError ELSE TimeoutError]
  /\ UNCHANGED <<srvEvents, apiVars, syncState, syncMessage, syncInProgress, runs>>
  /\ UNCHANGED <<connVars, signalVars, storeVars, userVars, calm>>

\* syncFaults after the response
SyncQueue_faultsResponse(q) ==
  /\ drains[q].pc = "faultsResponse"
  /\ faults' = updateErrors(updateAll(faults,
                                      successIds(drains[q].faults, drains[q].errors),
                                      "SYNCED", NoError),
                            drains[q].errors)
  /\ pendingEventsCount' = countPending(events)
  /\ pendingFaultsCount' = countPending(faults')
  /\ drains' = [drains EXCEPT ![q] = AfterUploads(@, drains[q].faults)]
  /\ UNCHANGED <<events, lastFailedChecks, localAssets, localChecklists, reporterName,
                 lastSyncAt>>
  /\ UNCHANGED <<syncState, syncMessage, syncInProgress, runs>>
  /\ UNCHANGED <<connVars, signalVars, serverVars, userVars, envVars>>

\* syncFaults' catch
SyncQueue_faultsFailed(q) ==
  /\ drains[q].pc = "faultsFailed"
  /\ faults' = updateAll(faults, idsOf(drains[q].faults), "ERROR", drains[q].error)
  /\ pendingEventsCount' = countPending(events)
  /\ pendingFaultsCount' = countPending(faults')
  /\ Thrown(q, drains[q].error)
  /\ UNCHANGED <<events, lastFailedChecks, localAssets, localChecklists, reporterName,
                 lastSyncAt>>
  /\ UNCHANGED runs
  /\ UNCHANGED <<connVars, signalVars, serverVars, userVars, envVars>>

\* refreshFaultsForAsset(assetId): a failed request is logged and swallowed
SyncQueue_refreshFaults(q) ==
  /\ drains[q].pc = "refreshFaults"
  /\ \E o \in Outcomes :
       LET assetId == Head(drains[q].todo)
       IN  /\ Counted(o # "ok")
           /\ faults' = (IF o = "ok"
                         THEN replaceSyncedFaultsForAsset(faults, assetId,
                                                          openFaultsByAsset(srvFaults, assetId))
                         ELSE faults)
           /\ drains' = [drains EXCEPT ![q].pc = "refreshLastFailed",
                                       ![q].failed = @ \/ o # "ok"]
  /\ UNCHANGED <<events, lastFailedChecks, localAssets, localChecklists, reporterName,
                 lastSyncAt, pendingEventsCount, pendingFaultsCount>>
  /\ UNCHANGED <<syncState, syncMessage, syncInProgress, runs>>
  /\ UNCHANGED <<connVars, signalVars, serverVars, userVars, calm>>

\* refreshLastFailedCheckForAsset(assetId): getLastFailedCheck returns null when
\* the request fails
SyncQueue_refreshLastFailed(q) ==
  /\ drains[q].pc = "refreshLastFailed"
  /\ \E o \in Outcomes :
       LET assetId == Head(drains[q].todo)
           lastFailed == IF o = "ok" THEN lastFailedCheck(srvEvents, assetId) ELSE NoRecord
       IN  /\ Counted(o # "ok")
           /\ lastFailedChecks' = saveLastFailedCheck(lastFailedChecks, assetId, lastFailed)
           /\ drains' = [drains EXCEPT
                ![q].todo = Tail(@),
                ![q].pc = IF Tail(drains[q].todo) = <<>> THEN "setMeta" ELSE "refreshFaults",
                ![q].failed = @ \/ o # "ok"]
  /\ UNCHANGED <<events, faults, localAssets, localChecklists, reporterName, lastSyncAt,
                 pendingEventsCount, pendingFaultsCount>>
  /\ UNCHANGED <<syncState, syncMessage, syncInProgress, runs>>
  /\ UNCHANGED <<connVars, signalVars, serverVars, userVars, calm>>

\* setMeta('lastSyncAt'), the success state, finally the flag is released
SyncQueue_setMeta(q) ==
  /\ drains[q].pc = "setMeta"
  /\ lastSyncAt' = TRUE
  /\ signalLastSyncAt' = TRUE
  /\ syncState' = "success"
  /\ syncMessage' = MsgCompleted
  /\ syncInProgress' = FALSE
  /\ drains' = [drains EXCEPT ![q] = Ended(@, @.failed)]
  /\ UNCHANGED <<events, faults, lastFailedChecks, localAssets, localChecklists,
                 reporterName, pendingEventsCount, pendingFaultsCount>>
  /\ UNCHANGED runs
  /\ UNCHANGED <<boot, isInitialized, signalReporterName, cacheStats>>
  /\ UNCHANGED <<connVars, serverVars, userVars, envVars>>

\* ------------------------------------------------------------------ components
\* PendingComponent.loadPending()
LoadedView(evs, fts) ==
  [screen |-> "pending",
   events |-> {k \in DOMAIN evs : IsPending(evs[k])},
   faults |-> {k \in DOMAIN fts : IsPending(fts[k])},
   event |-> NoRecord]

\* the items answered NO, in form order
RECURSIVE noItems(_, _)
noItems(responses, i) ==
  IF i > Len(responses) THEN <<>>
  ELSE (IF responses[i] = "NO" THEN <<i>> ELSE <<>>) \o noItems(responses, i + 1)

\* createFaultsForFailedItems / the loop of updateFaults: one saveFault per NO
RECURSIVE saveNewFaults(_, _, _, _, _)
saveNewFaults(table, items, firstId, assetId, eventId) ==
  IF items = <<>> THEN table
  ELSE saveNewFaults(put(table, firstId, createFault(firstId, assetId, eventId, Head(items))),
                     Tail(items), firstId + 1, assetId, eventId)

\* a syncQueue() call nobody awaits inside SyncService has returned:
\* nothing for submitCheck, loadPending() for the pending list's retry
SyncQueue_return(q) ==
  /\ drains[q].pc = "returned"
  /\ drains[q].caller \notin Runs
  /\ drains' = [drains EXCEPT ![q] = IdleDrain]
  /\ ui' = (IF drains[q].caller = RetryCaller /\ ui.screen = "pending"
            THEN LoadedView(events, faults) ELSE ui)
  /\ UNCHANGED <<nextEventId, nextFaultId>>
  /\ UNCHANGED <<syncState, syncMessage, syncInProgress, runs>>
  /\ UNCHANGED <<connVars, signalVars, storeVars, serverVars, envVars>>

\* settings: saveReporter()
saveReporter ==
  /\ reporterName = NULL
  /\ reporterName' = ReporterName
  /\ signalReporterName' = ReporterName
  /\ UNCHANGED <<events, faults, lastFailedChecks, localAssets, localChecklists, lastSyncAt,
                 pendingEventsCount, pendingFaultsCount>>
  /\ UNCHANGED <<boot, isInitialized, signalLastSyncAt, cacheStats>>
  /\ UNCHANGED <<connVars, engineVars, serverVars, userVars, envVars>>

\* PreShiftCheckComponent.submitCheck() on a form that canStartCheck allowed
submitCheck(assetId, responses) ==
  LET items == noItems(responses, 1)
  IN  /\ ~calm
      /\ ui.screen = "other"
      /\ assetId \in localAssets /\ localChecklists # {} /\ reporterName # NULL
      /\ nextEventId <= MaxEvents
      /\ nextFaultId + Len(items) <= MaxFaults + 1
      /\ CanCallSyncQueue
      /\ events' = put(events, nextEventId,
                       createEvent(nextEventId, assetId, responses, nextEventId))
      /\ faults' = saveNewFaults(faults, items, nextFaultId, assetId, nextEventId)
      /\ pendingEventsCount' = countPending(events')
      /\ pendingFaultsCount' = countPending(faults')
      /\ nextEventId' = nextEventId + 1
      /\ nextFaultId' = nextFaultId + Len(items)
      /\ drains' = syncQueue(drains, NoCaller)
      /\ UNCHANGED ui
      /\ UNCHANGED <<lastFailedChecks, localAssets, localChecklists, reporterName, lastSyncAt>>
      /\ UNCHANGED <<syncState, syncMessage, syncInProgress, runs>>
      /\ cacheStats' = refreshCacheStats(localAssets, localChecklists, events', faults')
      /\ UNCHANGED <<boot, isInitialized, signalReporterName, signalLastSyncAt>>
      /\ UNCHANGED <<connVars, serverVars, envVars>>

\* navigation to the pending list: ngOnInit loads the pending records
OpenPending ==
  /\ ui.screen = "other"
  /\ ui' = LoadedView(events, faults)
  /\ UNCHANGED <<nextEventId, nextFaultId>>
  /\ UNCHANGED <<connVars, signalVars, engineVars, storeVars, serverVars, envVars>>

LeavePending ==
  /\ ui.screen = "pending"
  /\ ui' = OtherScreen
  /\ UNCHANGED <<nextEventId, nextFaultId>>
  /\ UNCHANGED <<connVars, signalVars, engineVars, storeVars, serverVars, envVars>>

\* PendingComponent.retryEvent -> SyncService.retryEvent
retryEvent(eventId) ==
  /\ ~calm
  /\ ui.screen = "pending" /\ eventId \in ui.events
  /\ eventId \in DOMAIN events
  /\ CanCallSyncQueue
  /\ events' = updateSyncStatus(events, eventId, "PENDING", NoError)
  /\ pendingEventsCount' = countPending(events')
  /\ pendingFaultsCount' = countPending(faults)
  /\ drains' = syncQueue(drains, RetryCaller)
  /\ ui' = (IF syncQueueEnters THEN ui ELSE LoadedView(events', faults))
  /\ UNCHANGED <<nextEventId, nextFaultId>>
  /\ UNCHANGED <<faults, lastFailedChecks, localAssets, localChecklists, reporterName,
                 lastSyncAt>>
  /\ UNCHANGED <<syncState, syncMessage, syncInProgress, runs>>
  /\ UNCHANGED <<connVars, signalVars, serverVars, envVars>>

\* PendingComponent.retryFault -> SyncService.retryFault
retryFault(faultId) ==
  /\ ~calm
  /\ ui.screen = "pending" /\ faultId \in ui.faults
  /\ faultId \in DOMAIN faults
  /\ CanCallSyncQueue
  /\ faults' = updateSyncStatus(faults, faultId, "PENDING", NoError)
  /\ pendingEventsCount' = countPending(events)
  /\ pendingFaultsCount' = countPending(faults')
  /\ drains' = syncQueue(drains, RetryCaller)
  /\ ui' = (IF syncQueueEnters THEN ui ELSE LoadedView(events, faults'))
  /\ UNCHANGED <<nextEventId, nextFaultId>>
  /\ UNCHANGED <<events, lastFailedChecks, localAssets, localChecklists, reporterName,
                 lastSyncAt>>
  /\ UNCHANGED <<syncState, syncMessage, syncInProgress, runs>>
  /\ UNCHANGED <<connVars, signalVars, serverVars, envVars>>

\* PendingComponent.deleteEvent -> DatabaseService.deleteEvent, then loadPending()
deleteEvent(eventId) ==
  /\ ~calm
  /\ ui.screen = "pending" /\ eventId \in ui.events
  /\ faults' = deleteFaultsOfEvent(faults, eventId)
  /\ events' = deleteKeys(events, {eventId})
  /\ pendingEventsCount' = countPending(events')
  /\ pendingFaultsCount' = countPending(faults')
  /\ ui' = LoadedView(events', faults')
  /\ runs' = Posted(runs, {eventId})
  /\ UNCHANGED <<nextEventId, nextFaultId>>
  /\ UNCHANGED <<lastFailedChecks, localAssets, localChecklists, reporterName, lastSyncAt>>
  /\ UNCHANGED <<syncState, syncMessage, syncInProgress, drains>>
  /\ UNCHANGED <<connVars, signalVars, serverVars, envVars>>

\* PendingComponent.editEvent -> EditCheckComponent.loadEvent
loadEvent(eventId) ==
  /\ ~calm
  /\ ui.screen = "pending" /\ eventId \in ui.events
  /\ ui' = (IF eventId \notin DOMAIN events \/ events[eventId].sync_status = "SYNCED"
            THEN OtherScreen
            ELSE [screen |-> "edit", events |-> {}, faults |-> {},
                  event |-> events[eventId]])
  /\ UNCHANGED <<nextEventId, nextFaultId>>
  /\ UNCHANGED <<connVars, signalVars, engineVars, storeVars, serverVars, envVars>>

\* EditCheckComponent.createUpdatedEvent
createUpdatedEvent(event, responses) ==
  [event EXCEPT !.responses = responses,
                !.result = calculateCheckResult(responses),
                !.sync_status = "PENDING"]

\* EditCheckComponent.saveChanges: saveEvent, updateFaults, back to the list
saveChanges(responses) ==
  LET items == noItems(responses, 1)
      updatedEvent == createUpdatedEvent(ui.event, responses)
  IN  /\ ~calm
      /\ ui.screen = "edit"
      /\ nextFaultId + Len(items) <= MaxFaults + 1
      /\ events' = put(events, updatedEvent.id, updatedEvent)
      /\ faults' = saveNewFaults(deleteFaultsOfEvent(faults, updatedEvent.id), items,
                                 nextFaultId, ui.event.asset_id, updatedEvent.id)
      /\ pendingEventsCount' = countPending(events')
      /\ pendingFaultsCount' = countPending(faults')
      /\ nextFaultId' = nextFaultId + Len(items)
      /\ ui' = LoadedView(events', faults')
      /\ UNCHANGED nextEventId
      /\ UNCHANGED <<lastFailedChecks, localAssets, localChecklists, reporterName, lastSyncAt>>
      \* saveEvent and saveFault refresh the statistics, deleteFaultsByEventId does not
      /\ cacheStats' = refreshCacheStats(localAssets, localChecklists, events',
                                       IF items = <<>> THEN faults ELSE faults')
      /\ UNCHANGED <<boot, isInitialized, signalReporterName, signalLastSyncAt>>
      /\ UNCHANGED <<connVars, engineVars, serverVars, envVars>>

\* EditCheckComponent.goBack
goBack ==
  /\ ui.screen = "edit"
  /\ ui' = LoadedView(events, faults)
  /\ UNCHANGED <<nextEventId, nextFaultId>>
  /\ UNCHANGED <<connVars, signalVars, engineVars, storeVars, serverVars, envVars>>

\* from here on the network, the storage and the server do not fail and the
\* user neither edits nor deletes
Calm ==
  /\ ~calm
  /\ reporterName # NULL
  /\ navigatorOnLine
  /\ calm' = TRUE
  /\ UNCHANGED <<connVars, signalVars, engineVars, storeVars, serverVars, userVars, failures>>

\* ------------------------------------------------------------------ specification
ConnNext ==
  \/ ConnectivityCheck
  \/ OnlineEvent
  \/ OfflineEvent
  \/ forceOffline
  \/ HealthCheck
  \/ AutoSyncTick

EngineNext ==
  \/ \E r \in Runs : InitialSync_fetch(r)
  \/ \E r \in Runs : InitialSync_save(r)
  \/ \E r \in Runs : InitialSync_clearCache(r)
  \/ \E r \in Runs : \E a \in Assets : InitialSync_lastFailed(r, a)
  \/ \E r \in Runs : InitialSync_setMeta(r)
  \/ \E r \in Runs : InitialSync_return(r)
  \/ \E q \in Drains : SyncQueue_getReporter(q)
  \/ \E q \in Drains : SyncQueue_getPendingEvents(q)
  \/ \E q \in Drains : PostEvents(q)
  \/ \E q \in Drains : SyncQueue_eventsResponse(q)
  \/ \E q \in Drains : SyncQueue_eventsFailed(q)
  \/ \E q \in Drains : SyncQueue_getPendingFaults(q)
  \/ \E q \in Drains : PostFaults(q)
  \/ \E q \in Drains : SyncQueue_faultsResponse(q)
  \/ \E q \in Drains : SyncQueue_faultsFailed(q)
  \/ \E q \in Drains : SyncQueue_refreshFaults(q)
  \/ \E q \in Drains : SyncQueue_refreshLastFailed(q)
  \/ \E q \in Drains : SyncQueue_setMeta(q)
  \/ \E q \in Drains : SyncQueue_return(q)

UserNext ==
  \/ manualSync
  \/ saveReporter
  \/ \E a \in Assets : \E responses \in ResponseSeqs : submitCheck(a, responses)
  \/ OpenPending
  \/ LeavePending
  \/ \E e \in EventIds : retryEvent(e)
  \/ \E f \in FaultIds : retryFault(f)
  \/ \E e \in EventIds : deleteEvent(e)
  \/ \E e \in EventIds : loadEvent(e)
  \/ \E responses \in ResponseSeqs : saveChanges(responses)
  \/ goBack

Next == ConnNext \/ EngineNext \/ UserNext \/ Calm

Spec == Init /\ [][Next]_vars

\* the connectivity monitor with the sync runs it starts, on a client whose
\* queue stays empty
RunNext ==
  \/ \E r \in Runs : InitialSync_fetch(r)
  \/ \E r \in Runs : InitialSync_save(r)
  \/ \E r \in Runs : InitialSync_clearCache(r)
  \/ \E r \in Runs : \E a \in Assets : InitialSync_lastFailed(r, a)
  \/ \E r \in Runs : InitialSync_setMeta(r)
  \/ \E r \in Runs : InitialSync_return(r)

NextConn ==
  \/ ConnNext
  \/ RunNext
  \/ manualSync
  \/ saveReporter
  \/ \E q \in Drains : SyncQueue_getReporter(q)
  \/ \E q \in Drains : SyncQueue_getPendingEvents(q)
  \/ \E q \in Drains : SyncQueue_getPendingFaults(q)
  \/ \E q \in Drains : SyncQueue_setMeta(q)

SpecConn == Init /\ [][NextConn]_vars

\* a client that went online and completed its first initialSync with the
\* reporter name saved: reference data cached, auto-sync timer running
InitSynced ==
  /\ navigatorOnLine = TRUE
  /\ isOnline = TRUE
  /\ autoSyncIntervalId = TRUE
  /\ activeTimers = 1
  /\ probes = [w \in BOOLEAN |-> 0]
  /\ edgeSyncs = 1
  /\ syncState = "success"
  /\ syncMessage = MsgCompleted
  /\ syncInProgress = FALSE
  /\ drains = [q \in Drains |-> IdleDrain]
  /\ runs = [r \in Runs |-> IdleRun]
  /\ events = EmptyTable
  /\ faults = EmptyTable
  /\ lastFailedChecks = EmptyTable
  /\ localAssets = Assets
  /\ localChecklists = {c \in DOMAIN Checklists : Checklists[c] = "ACTIVE"}
  /\ reporterName = ReporterName
  /\ lastSyncAt = TRUE
  /\ pendingEventsCount = 0
  /\ pendingFaultsCount = 0
  /\ srvEvents = EmptyTable
  /\ srvFaults = EmptyTable
  /\ srvClock = ServerStart
  /\ srvRequest = NoRequest
  /\ srvReply = NoReply
  /\ ui = OtherScreen
  /\ nextEventId = 1
  /\ nextFaultId = 1
  /\ calm = FALSE
  /\ failures = 0
  /\ SignalsLoaded

\* the queue drain alone: checks are submitted and uploaded
DrainNext ==
  \/ \E q \in Drains : SyncQueue_getReporter(q)
  \/ \E q \in Drains : SyncQueue_getPendingEvents(q)
  \/ \E q \in Drains : PostEvents(q)
  \/ \E q \in Drains : SyncQueue_eventsResponse(q)
  \/ \E q \in Drains : SyncQueue_eventsFailed(q)
  \/ \E q \in Drains : SyncQueue_getPendingFaults(q)
  \/ \E q \in Drains : PostFaults(q)
  \/ \E q \in Drains : SyncQueue_faultsResponse(q)
  \/ \E q \in Drains : SyncQueue_faultsFailed(q)
  \/ \E q \in Drains : SyncQueue_refreshFaults(q)
  \/ \E q \in Drains : SyncQueue_refreshLastFailed(q)
  \/ \E q \in Drains : SyncQueue_setMeta(q)

\* sync runs and drains on the synced client: checks are submitted while
\* manual and timer-driven syncs run
NextSync ==
  \/ \E a \in Assets : \E responses \in ResponseSeqs : submitCheck(a, responses)
  \/ manualSync
  \/ AutoSyncTick
  \/ RunNext
  \/ DrainNext
  \/ \E q \in Drains : SyncQueue_return(q)

SpecSync == InitSynced /\ [][NextSync]_vars

\* the edit flow of a pending check while its upload is in flight
NextEdit ==
  \/ \E a \in Assets : \E responses \in ResponseSeqs : submitCheck(a, responses)
  \/ OpenPending
  \/ \E e \in EventIds : loadEvent(e)
  \/ \E responses \in ResponseSeqs : saveChanges(responses)
  \/ goBack
  \/ DrainNext
  \/ \E q \in Drains : SyncQueue_return(q)

SpecEdit == InitSynced /\ [][NextEdit]_vars

\* a check whose first item is answered NO: a FAIL event with one fault
FailedCheck == [i \in Items |-> IF i = 1 THEN "NO" ELSE "YES"]

\* connectivity, sync runs and uploads together; the user only submits checks.
\* Timers fire and awaited calls return: weak fairness on every step of the
\* event loop that is not a user's or the network's choice.
NextLive ==
  \/ ConnectivityCheck
  \/ OnlineEvent
  \/ OfflineEvent
  \/ HealthCheck
  \/ AutoSyncTick
  \/ RunNext
  \/ DrainNext
  \/ \E q \in Drains : SyncQueue_return(q)
  \/ \E a \in Assets : submitCheck(a, FailedCheck)
  \/ Calm

Fairness ==
  /\ WF_vars(ConnectivityCheck)
  /\ WF_vars(HealthCheck)
  /\ WF_vars(AutoSyncTick)
  /\ WF_vars(RunNext)
  /\ WF_vars(DrainNext)
  /\ WF_vars(\E q \in Drains : SyncQueue_return(q))

SpecLive == InitSynced /\ [][NextLive]_vars /\ Fairness

\* ------------------------------------------------------------------ properties
InFlightDrains == {q \in Drains : drains[q].pc \notin {"idle", "returned"}}

\* C1: no event and no fault is in the upload batches of two syncQueue()
\* invocations that are in flight at the same time
NoOverlappingBatches ==
  \A q1 \in InFlightDrains : \A q2 \in InFlightDrains \ {q1} :
    /\ SeqIds(drains[q1].events) \cap SeqIds(drains[q2].events) = {}
    /\ SeqIds(drains[q1].faults) \cap SeqIds(drains[q2].faults) = {}

\* the step in which run r fetches a last-failed check into the cache
FetchesLastFailed(r) ==
  runs[r].pc = "lastFailed" /\ runs'[r].todo # runs[r].todo

SyncedIsTerminal ==
  [][/\ \A k \in DOMAIN events \cap DOMAIN events' :
          events[k].sync_status = "SYNCED" =>
            /\ events'[k].sync_status = "SYNCED"
            /\ events'[k].responses = events[k].responses
            /\ events'[k].result = events[k].result
     /\ \A k \in DOMAIN faults \cap DOMAIN faults' :
          faults[k].sync_status = "SYNCED" => faults'[k].sync_status = "SYNCED"]_vars

AllSynced ==
  /\ \A k \in DOMAIN events : events[k].sync_status = "SYNCED"
  /\ \A k \in DOMAIN faults : faults[k].sync_status = "SYNCED"

\* C4: once probes succeed, the reporter is set, the server accepts every
\* batch and the user stopped editing, every PENDING or ERROR record
\* eventually is SYNCED
EventualUpload == calm ~> AllSynced

\* the records of a batch that are still in the table all have this status and error
AllMarked(table, batch, status, error) ==
  \A i \in 1..Len(batch) :
    batch[i].id \in DOMAIN table =>
      /\ table[batch[i].id].sync_status = status
      /\ table[batch[i].id].last_error = error

\* the step that handles the failed upload call of drain q
HandlesFailure(q) ==
  drains[q].pc \in {"eventsFailed", "faultsFailed"} /\ drains'[q].pc # drains[q].pc

HandlesResponse(q) ==
  drains[q].pc \in {"eventsResponse", "faultsResponse"} /\ drains'[q].pc # drains[q].pc

\* the records of a batch that are still in the table: ERROR with the server's
\* message when the response lists them, SYNCED otherwise
MarkedPerRecord(table, batch, errors) ==
  \A i \in 1..Len(batch) :
    batch[i].id \in DOMAIN table =>
      IF \E j \in 1..Len(errors) : errors[j].id = batch[i].id
      THEN \E j \in 1..Len(errors) :
             /\ errors[j].id = batch[i].id
             /\ table[batch[i].id].sync_status = "ERROR"
             /\ table[batch[i].id].last_error = errors[j].error
      ELSE table[batch[i].id].sync_status = "SYNCED"

\* every local record that is SYNCED is stored on the server
SyncedAreStored ==
  /\ \A k \in DOMAIN events : events[k].sync_status = "SYNCED" => k \in DOMAIN srvEvents
  /\ \A k \in DOMAIN faults : faults[k].sync_status = "SYNCED" => k \in DOMAIN srvFaults

FailuresAreReported ==
  [][/\ \A q \in Drains :
          drains[q].pc # "returned" /\ drains'[q].pc = "returned" /\ drains'[q].failed
            => syncState' = "error"
     /\ \A r \in Runs :
          runs[r].pc # "returned" /\ runs'[r].pc = "returned" /\ runs'[r].failed
            => syncState' = "error"]_vars

\* the step in which a probe of checkConnectivity() returns
ProbeReturns == InFlight' < InFlight

\* C8: after a failed probe the online state is false and no auto-sync timer
\* is active
ProbeFailureHaltsTimer ==
  [][ProbeReturns /\ failures' # failures => ~isOnline' /\ activeTimers' = 0]_vars

\* C9: one offline-to-online transition starts at most one initialSync()
OneSyncPerTransition == edgeSyncs <= 1

\* the step in which a run of initialSync() starts
StartsInitialSync == \E r \in Runs : runs[r].pc = "idle" /\ runs'[r].pc = "fetch"

\* C10: a probe that was started offline and succeeds sets the state online,
\* starts initialSync() and leaves exactly one auto-sync timer, the one it
\* started; at most one timer is active in every state
OneAutoSyncTimer ==
  /\ [](activeTimers <= 1 /\ (autoSyncIntervalId <=> activeTimers = 1))
  /\ [][ProbeReturns /\ probes'[FALSE] < probes[FALSE] /\ failures' = failures =>
          /\ isOnline'
          /\ StartsInitialSync
          /\ autoSyncIntervalId' /\ activeTimers' = 1]_vars

\* a second probe started offline succeeded while a timer was running: the
\* timer was restarted
TimerRestarted == isOnline /\ edgeSyncs = 2 /\ activeTimers = 1

\* C11: the online state starts as false, and every step that turns it from
\* false to true is the return of a healthCheck() probe that succeeded; no
\* 'online' event or connection-change event turns it on
OnlineOnlyByProbe ==
  /\ ~isOnline
  /\ [][~isOnline /\ isOnline' => ProbeReturns /\ failures' = failures]_vars

\* the browser reported online, the probe came back and the state is online
ProbeConfirmedOnline == navigatorOnLine /\ isOnline /\ InFlight = 0 /\ edgeSyncs = 1

\* ------------------------------------------------------------------ server API
\* The upsert handlers of the server with the timestamps they write.  The
\* client flows above use batchUpsert, which leaves the timestamps out.
MaxClock == 2
MaxBatch == 3
MaxServerIds == 2
ServerIds == 1 .. MaxServerIds

\* created_at / updated_at a client puts into a payload (createEvent: now)
ClientTime == 0

\* request bodies: an event with or without event_id; the first id is sent
\* with either result, so that a payload can differ from the stored record
EventPayloads ==
  {p \in [id : {MissingId} \cup ServerIds, result : {"PASS", "FAIL"},
          created_at : {ClientTime}, updated_at : {ClientTime}] :
     p.result = "FAIL" => p.id = 1}

FaultPayloads ==
  [id : {MissingId, 1}, status : {"OPEN"},
   created_at : {ClientTime}, updated_at : {ClientTime}]

SeqsUpTo(S, n) == UNION {[1 .. k -> S] : k \in 0 .. n}

\* an upsert that inserts without looking for an existing record
insertOnly(store, rec, now) ==
  LET created == [rec EXCEPT !.created_at = now, !.updated_at = now]
  IN  [store |-> put(store, rec.id, created),
       reply |-> [status |-> 201, action |-> "created", record |-> created]]

\* POST /api/events and POST /api/faults
upsert(store, rec, now) ==
  IF rec.id = MissingId
  THEN [store |-> store, reply |-> [status |-> 400, error |-> "id is required"]]
  ELSE IF rec.id \in DOMAIN store
  THEN LET updated == [rec EXCEPT !.updated_at = now]
       IN  [store |-> put(store, rec.id, updated),
            reply |-> [status |-> 200, action |-> "updated", record |-> updated]]
  ELSE LET created == [rec EXCEPT !.created_at = now, !.updated_at = now]
       IN  [store |-> put(store, rec.id, created),
            reply |-> [status |-> 201, action |-> "created", record |-> created]]

EmptyResponse(recs) ==
  [status |-> 200, processed |-> Len(recs), created |-> 0, updated |-> 0, errors |-> <<>>]

\* a batch loop that gives up at the first record without a primary id
RECURSIVE stopAtError(_, _, _, _, _)
stopAtError(store, recs, now, i, response) ==
  IF i > Len(recs) THEN [store |-> store, reply |-> response]
  ELSE LET rec == recs[i]
       IN  IF rec.id = MissingId
           THEN [store |-> store,
                 reply |-> [response EXCEPT !.errors =
                              Append(@, [id |-> UnknownId, error |-> "id is required"])]]
           ELSE IF rec.id \in DOMAIN store
           THEN stopAtError(put(store, rec.id, [rec EXCEPT !.updated_at = now]),
                  recs, now, i + 1, [response EXCEPT !.updated = @ + 1])
           ELSE stopAtError(put(store, rec.id,
                                 [rec EXCEPT !.created_at = now, !.updated_at = now]),
                  recs, now, i + 1, [response EXCEPT !.created = @ + 1])

\* the loop of POST /api/events/batch and POST /api/faults/batch from record i
RECURSIVE upsertLoop(_, _, _, _, _)
upsertLoop(store, recs, now, i, response) ==
  IF i > Len(recs) THEN [store |-> store, reply |-> response]
  ELSE LET rec == recs[i]
       IN  IF rec.id = MissingId
           THEN upsertLoop(store, recs, now, i + 1,
                  [response EXCEPT !.errors =
                     Append(@, [id |-> UnknownId, error |-> "id is required"])])
           ELSE IF rec.id \in DOMAIN store
           THEN upsertLoop(put(store, rec.id, [rec EXCEPT !.updated_at = now]),
                  recs, now, i + 1, [response EXCEPT !.updated = @ + 1])
           ELSE upsertLoop(put(store, rec.id,
                                [rec EXCEPT !.created_at = now, !.updated_at = now]),
                  recs, now, i + 1, [response EXCEPT !.created = @ + 1])

\* a batch upsert that tallies every stored record as created
tallyCreated(store, recs, now) ==
  LET result == upsertLoop(store, recs, now, 1, EmptyResponse(recs))
  IN  [store |-> result.store,
       reply |-> [result.reply EXCEPT !.created = @ + result.reply.updated,
                                      !.updated = 0]]

upsertBatch(store, recs, now) == upsertLoop(store, recs, now, 1, EmptyResponse(recs))

\* time passes on the server
ServerClockTick ==
  /\ srvClock < MaxClock
  /\ srvClock' = srvClock + 1
  /\ UNCHANGED <<srvEvents, srvFaults, srvRequest, srvReply>>
  /\ UNCHANGED <<connVars, signalVars, engineVars, storeVars, userVars, envVars>>

PostEvent ==
  /\ \E event \in EventPayloads :
       LET result == upsert(srvEvents, event, srvClock)
       IN  /\ srvRequest' = [kind |-> "event", body |-> event]
           /\ srvEvents' = result.store
           /\ srvReply' = result.reply
  /\ UNCHANGED <<srvFaults, srvClock>>
  /\ UNCHANGED <<connVars, signalVars, engineVars, storeVars, userVars, envVars>>

PostEventsBatch ==
  /\ \E batch \in SeqsUpTo(EventPayloads, MaxBatch) :
       LET result == upsertBatch(srvEvents, batch, srvClock)
       IN  /\ srvRequest' = [kind |-> "events", body |-> batch]
           /\ srvEvents' = result.store
           /\ srvReply' = result.reply
  /\ UNCHANGED <<srvFaults, srvClock>>
  /\ UNCHANGED <<connVars, signalVars, engineVars, storeVars, userVars, envVars>>

PostFaultsBatch ==
  /\ \E batch \in SeqsUpTo(FaultPayloads, MaxFaults) :
       LET result == upsertBatch(srvFaults, batch, srvClock)
       IN  /\ srvRequest' = [kind |-> "faults", body |-> batch]
           /\ srvFaults' = result.store
           /\ srvReply' = result.reply
  /\ UNCHANGED <<srvEvents, srvClock>>
  /\ UNCHANGED <<connVars, signalVars, engineVars, storeVars, userVars, envVars>>

NextServer == PostEvent \/ PostEventsBatch \/ PostFaultsBatch \/ ServerClockTick

SpecServer == InitSynced /\ [][NextServer]_vars

\* ------------------------------------------------------------------ server properties
\* ids of the records of a request body that carry a primary id
RequestIds(req) ==
  IF req.kind = "event" THEN {req.body.id} \ {MissingId}
  ELSE IF req.kind \in {"events", "faults"}
  THEN {req.body[i].id : i \in DOMAIN req.body} \ {MissingId}
  ELSE {}

\* the step in which the server handles an upsert request of the kind
UpsertStep(kind) ==
  /\ srvClock' = srvClock
  /\ srvRequest'.kind = kind
  /\ <<srvEvents, srvFaults, srvRequest, srvReply>>' # <<srvEvents, srvFaults, srvRequest, srvReply>>

\* C12: an upsert never changes the created_at of a record that is already
\* stored, and sets updated_at of every record it upserts to the server's now
CreatedAtPreserved ==
  [][/\ \A id \in DOMAIN srvEvents : srvEvents'[id].created_at = srvEvents[id].created_at
     /\ \A id \in DOMAIN srvFaults : srvFaults'[id].created_at = srvFaults[id].created_at
     /\ UpsertStep("event") \/ UpsertStep("events") =>
          \A id \in RequestIds(srvRequest') : srvEvents'[id].updated_at = srvClock
     /\ UpsertStep("faults") =>
          \A id \in RequestIds(srvRequest') : srvFaults'[id].updated_at = srvClock]_vars

\* the fields of an event that are not timestamps
Content(rec) == [id |-> rec.id, result |-> rec.result]

\* C13: upsert is idempotent by id: a stored id is never lost; an upsert of a
\* payload with an id adds that id and no other, answers 'created' when the id
\* was absent and 'updated' when it was present (every repetition), and leaves
\* the payload's non-timestamp fields stored under the id
UpsertIdempotent ==
  [][/\ DOMAIN srvEvents \subseteq DOMAIN srvEvents'
     /\ UpsertStep("event") /\ srvRequest'.body.id # MissingId =>
          LET payload == srvRequest'.body
          IN  /\ DOMAIN srvEvents' = DOMAIN srvEvents \cup {payload.id}
              /\ srvReply'.action =
                   (IF payload.id \in DOMAIN srvEvents THEN "updated" ELSE "created")
              /\ srvReply'.status =
                   (IF payload.id \in DOMAIN srvEvents THEN 200 ELSE 201)
              /\ Content(srvEvents'[payload.id]) = Content(payload)]_vars

\* the same payload was uploaded again: the server answered 'updated', one
\* record is stored and it has the payload's content
UploadedAgain ==
  /\ srvRequest.kind = "event"
  /\ srvReply.status = 200 /\ srvReply.action = "updated"
  /\ Cardinality(DOMAIN srvEvents) = 1
  /\ Content(srvEvents[srvRequest.body.id]) = Content(srvRequest.body)
  /\ srvEvents[srvRequest.body.id].updated_at = MaxClock

\* batch positions whose record carries a primary id
Valid(batch) == {i \in DOMAIN batch : batch[i].id # MissingId}

\* the last position of the batch that carries the id
LastOf(batch, id) ==
  CHOOSE i \in Valid(batch) : batch[i].id = id /\ \A j \in Valid(batch) : batch[j].id = id => j <= i

\* positions whose id was absent from the store when their turn came: the id
\* is not stored before the batch and no earlier position carries it
Fresh(store, batch) ==
  {i \in Valid(batch) : batch[i].id \notin DOMAIN store
                          /\ \A j \in Valid(batch) : j < i => batch[j].id # batch[i].id}

\* the tallies and the store after a batch upsert of `batch` into `before`
BatchTallies(before, after, batch, reply) ==
  /\ reply.processed = Len(batch)
  /\ reply.created = Cardinality(Fresh(before, batch))
  /\ reply.updated = Cardinality(Valid(batch) \ Fresh(before, batch))
  /\ reply.created + reply.updated + Len(reply.errors) = reply.processed
  /\ DOMAIN after = DOMAIN before \cup RequestIds([kind |-> "events", body |-> batch])
  /\ \A id \in DOMAIN before \ RequestIds([kind |-> "events", body |-> batch]) :
       after[id] = before[id]
  /\ \A id \in RequestIds([kind |-> "events", body |-> batch]) :
       LET last == batch[LastOf(batch, id)]
       IN  [after[id] EXCEPT !.created_at = ClientTime, !.updated_at = ClientTime] = last

\* C14: a batch upsert reports processed = batch length, created = records
\* whose id was absent when their turn came, updated = records whose id was
\* present, created + updated + errors = processed, and leaves under every id
\* of the batch the last record of the batch with that id
BatchTalliesExact ==
  [][/\ UpsertStep("events") =>
          BatchTallies(srvEvents, srvEvents', srvRequest'.body, srvReply')
     /\ UpsertStep("faults") =>
          BatchTallies(srvFaults, srvFaults', srvRequest'.body, srvReply')]_vars

\* the batch [A, B, A'] was upserted into an empty store: two records stored,
\* 2 created and 1 updated, and A holds A'
CreateCreateUpdate ==
  /\ srvRequest.kind = "events" /\ Len(srvRequest.body) = 3
  /\ srvRequest.body[1].id = 1 /\ srvRequest.body[2].id = 2 /\ srvRequest.body[3].id = 1
  /\ srvRequest.body[1].result = "PASS" /\ srvRequest.body[3].result = "FAIL"
  /\ srvReply.processed = 3 /\ srvReply.created = 2 /\ srvReply.updated = 1
  /\ Cardinality(DOMAIN srvEvents) = 2
  /\ srvEvents[1].result = "FAIL"

\* the errors a batch reports and what it stores, when some records have no id
ErrorsSkipped(before, after, batch, reply) ==
  /\ reply.status = 200
  /\ Len(reply.errors) = Cardinality(DOMAIN batch \ Valid(batch))
  /\ \A k \in DOMAIN reply.errors :
       reply.errors[k] = [id |-> UnknownId, error |-> "id is required"]
  /\ MissingId \notin DOMAIN after
  /\ (Valid(batch) = {} => after = before)
  /\ \A i \in Valid(batch) :
       /\ batch[i].id \in DOMAIN after
       /\ after[batch[i].id].updated_at = srvClock

\* C15: in a batch upsert every record without a primary id adds one error
\* and stores nothing, and every record with an id, before or after it, is
\* upserted all the same
MissingIdSkipped ==
  [][/\ UpsertStep("events") =>
          ErrorsSkipped(srvEvents, srvEvents', srvRequest'.body, srvReply')
     /\ UpsertStep("faults") =>
          ErrorsSkipped(srvFaults, srvFaults', srvRequest'.body, srvReply')]_vars

\* a batch with a record without id between two records with ids: one error,
\* both other records stored by this request
SkippedInTheMiddle ==
  /\ srvRequest.kind = "events" /\ Len(srvRequest.body) = 3
  /\ srvRequest.body[1].id = 1 /\ srvRequest.body[2].id = MissingId /\ srvRequest.body[3].id = 2
  /\ Len(srvReply.errors) = 1 /\ srvReply.created = 2
  /\ DOMAIN srvEvents = {1, 2}

\* ------------------------------------------------------------------ last failed check
MaxHistory == 3
MaxTime == 3
HistoryIds == 1 .. MaxHistory
HistoryAssets == Assets \cup {"a2"}
AllYes == [i \in Items |-> "YES"]

\* every store of at most MaxHistory checks of the assets, each passed or
\* failed, completed at a device clock reading (which can repeat)
Histories ==
  UNION {[ids -> [asset_id : HistoryAssets, responses : {AllYes, FailedCheck},
                  completed_at : 1 .. MaxTime]] : ids \in SUBSET HistoryIds}

Orders(S) ==
  {s \in [1 .. Cardinality(S) -> S] : \A i, j \in DOMAIN s : s[i] = s[j] => i = j}

Reverse(s) == [i \in DOMAIN s |-> s[Len(s) + 1 - i]]

\* an array in the order the sort receives it, left unsorted
unsorted(ids, table) == ids

\* Array.prototype.sort with a comparator descending in completed_at: stable,
\* records with equal completed_at keep the order of the input array
RECURSIVE sortDesc(_, _)
sortDesc(ids, table) ==
  IF ids = <<>> THEN <<>>
  ELSE LET sorted == sortDesc(SubSeq(ids, 1, Len(ids) - 1), table)
           k == ids[Len(ids)]
           n == Cardinality({i \in DOMAIN sorted :
                               table[sorted[i]].completed_at >= table[k].completed_at})
       IN  SubSeq(sorted, 1, n) \o <<k>> \o SubSeq(sorted, n + 1, Len(sorted))

ofAsset(ids, table, assetId) ==
  SelectSeq(ids, LAMBDA k : table[k].asset_id = assetId)

\* GET /api/events/last-failed/:asset_id, values = Array.from(db.events.values())
\* (the ids in insertion order)
getLastFailed(values, store, assetId) ==
  LET assetEvents == sortDesc(ofAsset(values, store, assetId), store)
  IN  IF Len(assetEvents) = 0 THEN NoRecord
      ELSE IF store[assetEvents[1]].result = "PASS" THEN NoRecord
      ELSE store[assetEvents[1]]

\* DatabaseService.getLastUnresolvedFailedCheck: the collection of the asset
\* in primary-key order, reversed, sorted descending by completed_at
getLastUnresolvedFailedCheck(table, assetId) ==
  LET collection == ofAsset(Reverse(SortedSeq(DOMAIN table)), table, assetId)
      sorted == sortDesc(collection, table)
  IN  IF Len(sorted) = 0 THEN NoRecord
      ELSE IF table[sorted[1]].result = "PASS" THEN NoRecord
      ELSE table[sorted[1]]

\* DatabaseService.getCachedLastFailedCheck
getCachedLastFailedCheck(cache, assetId) ==
  IF assetId \in DOMAIN cache THEN cache[assetId] ELSE NoRecord

\* the server handles GET /api/events/last-failed/:asset_id
GetLastFailed ==
  /\ \E assetId \in HistoryAssets : \E values \in Orders(DOMAIN srvEvents) :
       /\ srvRequest' = [kind |-> "last-failed", asset_id |-> assetId]
       /\ srvReply' = [status |-> 200, record |-> getLastFailed(values, srvEvents, assetId)]
  /\ UNCHANGED <<srvEvents, srvFaults, srvClock>>
  /\ UNCHANGED <<connVars, signalVars, engineVars, storeVars, userVars, envVars>>

\* PreShiftCheckComponent.loadPreviousFailedCheck: the cache of the server's
\* answers first, the local events when the cache has nothing
loadPreviousFailedCheck(assetId) ==
  LET cached == getCachedLastFailedCheck(lastFailedChecks, assetId)
      lastFailedEvent == IF cached # NoRecord THEN cached
                         ELSE getLastUnresolvedFailedCheck(events, assetId)
  IN  /\ ui' = [screen |-> "check", events |-> {}, faults |-> {},
                event |-> lastFailedEvent, asset_id |-> assetId]
      /\ UNCHANGED <<nextEventId, nextFaultId>>
      /\ UNCHANGED <<connVars, signalVars, engineVars, storeVars, serverVars, envVars>>

\* a device that holds a history of checks, all uploaded to the server
InitHistory ==
  /\ navigatorOnLine = TRUE
  /\ isOnline = TRUE
  /\ autoSyncIntervalId = TRUE
  /\ activeTimers = 1
  /\ probes = [w \in BOOLEAN |-> 0]
  /\ edgeSyncs = 1
  /\ syncState = "success"
  /\ syncMessage = MsgCompleted
  /\ syncInProgress = FALSE
  /\ drains = [q \in Drains |-> IdleDrain]
  /\ runs = [r \in Runs |-> IdleRun]
  /\ \E h \in Histories :
       /\ events = [k \in DOMAIN h |->
            [createEvent(k, h[k].asset_id, h[k].responses, h[k].completed_at)
               EXCEPT !.sync_status = "SYNCED"]]
       /\ srvEvents = [k \in DOMAIN h |-> stripEvent(events[k])]
  /\ faults = EmptyTable
  /\ lastFailedChecks = EmptyTable
  /\ localAssets = Assets
  /\ localChecklists = {c \in DOMAIN Checklists : Checklists[c] = "ACTIVE"}
  /\ reporterName = ReporterName
  /\ lastSyncAt = TRUE
  /\ pendingEventsCount = 0
  /\ pendingFaultsCount = 0
  /\ srvFaults = EmptyTable
  /\ srvClock = ServerStart
  /\ srvRequest = NoRequest
  /\ srvReply = NoReply
  /\ ui = OtherScreen
  /\ nextEventId = 1
  /\ nextFaultId = 1
  /\ calm = FALSE
  /\ failures = 0
  /\ SignalsLoaded

NextHistory ==
  \/ GetLastFailed
  \/ \E assetId \in HistoryAssets : loadPreviousFailedCheck(assetId)

SpecHistory == InitHistory /\ [][NextHistory]_vars

\* ------------------------------------------------------------------ last failed check, properties
\* the events of the asset with the greatest completed_at
Latest(table, assetId) ==
  {k \in DOMAIN table :
     /\ table[k].asset_id = assetId
     /\ \A j \in DOMAIN table :
          table[j].asset_id = assetId => table[j].completed_at <= table[k].completed_at}

\* answer is what the single latest event of the asset decides
DecidedByLatest(table, assetId, answer) ==
  /\ Latest(table, assetId) = {} => answer = NoRecord
  /\ \A k \in Latest(table, assetId) :
       Latest(table, assetId) = {k} =>
         answer = (IF table[k].result = "PASS" THEN NoRecord ELSE table[k])

\* C16: the last failed check of an asset is null when the asset has no
\* events or its single latest event passed, and is that event when it
\* failed; the server query and the client's local fallback both answer so
LastFailedDerivation ==
  /\ srvRequest.kind = "last-failed" =>
       DecidedByLatest(srvEvents, srvRequest.asset_id, srvReply.record)
  /\ ui.screen = "check" => DecidedByLatest(events, ui.asset_id, ui.event)
  /\ srvRequest.kind = "last-failed" /\ ui.screen = "check"
       /\ srvRequest.asset_id = ui.asset_id
       /\ Cardinality(Latest(events, ui.asset_id)) = 1
     => srvReply.record = (IF ui.event = NoRecord THEN NoRecord ELSE stripEvent(ui.event))

\* asset a1 has exactly a failed check and a later passed one, and both the
\* server and the client's local fallback answered null for it
FailThenPass ==
  /\ \E f, p \in DOMAIN events :
       /\ events[f].asset_id = "a1" /\ events[p].asset_id = "a1"
       /\ events[f].result = "FAIL" /\ events[p].result = "PASS"
       /\ events[f].completed_at < events[p].completed_at
       /\ Cardinality({k \in DOMAIN events : events[k].asset_id = "a1"}) = 2
  /\ srvRequest.kind = "last-failed" /\ srvRequest.asset_id = "a1"
  /\ srvReply.record = NoRecord
  /\ ui.screen = "check" /\ ui.asset_id = "a1" /\ ui.event = NoRecord

\* ------------------------------------------------------------------ edit properties
\* the step in which saveChanges() of the edit form writes to the store
SaveStep ==
  /\ ui.screen = "edit" /\ ui'.screen = "pending"
  /\ <<events, faults, nextFaultId>>' # <<events, faults, nextFaultId>>

MaxFormFaults == 4

\* comments a user can type: nothing, white space, a text
Comments == {"", " ", "worn"}

\* a comment as String.trim() leaves it, taken as it is
noTrim(comment) == comment

\* String.prototype.trim on the comments above
trim(comment) == IF comment = " " THEN "" ELSE comment

\* UtilsService.isEmpty
isEmpty(value) == value = NULL \/ value = "" \/ trim(value) = ""

\* UtilsService.validateCheckResponse
validateCheckResponse(answer, comment) ==
  IF answer # "NO" THEN TRUE ELSE ~isEmpty(comment)

\* the items of the active checklist of a machine class: none, or all of them
ChecklistItem(i) ==
  [item_id |-> i, text |-> <<"item", i>>, priority |-> IF i = 1 THEN "HIGH" ELSE "LOW"]

ChecklistVersions == {<<>>, [i \in Items |-> ChecklistItem(i)]}

\* initializeFormItems of the check form
initializeFormItems(checklist) ==
  [i \in DOMAIN checklist |->
     [item_id |-> checklist[i].item_id, text |-> checklist[i].text,
      priority |-> checklist[i].priority,
      answer |-> NULL, comment |-> "", isValid |-> TRUE]]

\* the response of the event to a checklist item, null when there is none
responseTo(responses, itemId) ==
  IF \E r \in DOMAIN responses : responses[r].item_id = itemId
  THEN responses[CHOOSE r \in DOMAIN responses :
                   /\ responses[r].item_id = itemId
                   /\ \A q \in DOMAIN responses : responses[q].item_id = itemId => r <= q]
  ELSE [item_id |-> itemId, answer |-> NULL, comment |-> NULL]

\* initializeFormItems of the edit form
initializeEditItems(event) ==
  [i \in DOMAIN event.checklist |->
     LET response == responseTo(event.responses, event.checklist[i].item_id)
     IN  [item_id |-> event.checklist[i].item_id, text |-> event.checklist[i].text,
          priority |-> event.checklist[i].priority,
          answer |-> response.answer,
          comment |-> IF response.comment = NULL THEN "" ELSE response.comment,
          isValid |-> response.answer # "NO"
                        \/ (response.comment # NULL /\ trim(response.comment) # "")]]

canSubmit(items) ==
  /\ ~ \E i \in DOMAIN items : items[i].answer = NULL
  /\ ~ \E i \in DOMAIN items : items[i].answer = "NO" /\ trim(items[i].comment) = ""

\* a check that passes as soon as one answer is YES
someYes(items) == \E i \in DOMAIN items : items[i].answer = "YES"

willPass(items) == \A i \in DOMAIN items : items[i].answer = "YES"

buildResponses(items) ==
  [i \in DOMAIN items |->
     [item_id |-> items[i].item_id, answer |-> items[i].answer,
      comment |-> IF items[i].answer = "NO" THEN items[i].comment ELSE NULL]]

\* a fault priority that ignores the checklist
alwaysMed(checklist, itemId) == "MED"

\* checklist.items.find(ci => ci.item_id === item.item_id)?.priority || 'MED'
priorityOf(checklist, itemId) ==
  IF \E c \in DOMAIN checklist : checklist[c].item_id = itemId
  THEN LET found == checklist[CHOOSE c \in DOMAIN checklist :
                       /\ checklist[c].item_id = itemId
                       /\ \A d \in DOMAIN checklist : checklist[d].item_id = itemId => c <= d]
       IN  IF found.priority = NULL THEN "MED" ELSE found.priority
  ELSE "MED"

\* PreShiftCheckComponent.createEvent with the snapshot and the responses
createFormEvent(eventId, assetId, checklist, items, now) ==
  [id |-> eventId, asset_id |-> assetId, checklist |-> checklist,
   responses |-> buildResponses(items),
   result |-> IF willPass(items) THEN "PASS" ELSE "FAIL",
   completed_at |-> now, sync_status |-> "PENDING", last_error |-> NoError]

\* the Fault literal of createFaultsForFailedItems and of updateFaults
createFormFault(faultId, assetId, eventId, checklist, item) ==
  [id |-> faultId, asset_id |-> assetId, status |-> "OPEN",
   origin |-> "PRE_SHIFT_CHECK",
   priority |-> priorityOf(checklist, item.item_id),
   description |-> <<item.text, " - ", item.comment>>,
   source_event_id |-> eventId,
   sync_status |-> "PENDING", last_error |-> NoError]

\* the form items answered NO, in form order
RECURSIVE noFormItems(_, _)
noFormItems(items, i) ==
  IF i > Len(items) THEN <<>>
  ELSE (IF items[i].answer = "NO" THEN <<items[i]>> ELSE <<>>) \o noFormItems(items, i + 1)

\* the loop of createFaultsForFailedItems / updateFaults: one saveFault per item
RECURSIVE saveFormFaults(_, _, _, _, _, _)
saveFormFaults(table, nos, firstId, assetId, eventId, checklist) ==
  IF nos = <<>> THEN table
  ELSE saveFormFaults(
         put(table, firstId, createFormFault(firstId, assetId, eventId, checklist, Head(nos))),
         Tail(nos), firstId + 1, assetId, eventId, checklist)

\* PreShiftCheckComponent.loadData: the check form of an asset opens
loadData(assetId, checklist) ==
  LET cached == getCachedLastFailedCheck(lastFailedChecks, assetId)
  IN  /\ ui.screen = "other"
      /\ assetId \in localAssets /\ localChecklists # {} /\ reporterName # NULL
      /\ nextEventId <= MaxEvents
      /\ ui' = [screen |-> "check", events |-> {}, faults |-> {},
                event |-> IF cached # NoRecord THEN cached
                          ELSE getLastUnresolvedFailedCheck(events, assetId),
                asset_id |-> assetId, checklist |-> checklist,
                items |-> initializeFormItems(checklist), pressed |-> FALSE]
      /\ UNCHANGED <<nextEventId, nextFaultId>>
      /\ UNCHANGED <<connVars, signalVars, engineVars, storeVars, serverVars, envVars>>

\* EditCheckComponent.loadEvent with the form it fills
openEditForm(eventId) ==
  /\ ui.screen = "other"
  /\ eventId \in DOMAIN events
  /\ ui' = (IF events[eventId].sync_status = "SYNCED" THEN OtherScreen
            ELSE [screen |-> "edit", events |-> {}, faults |-> {},
                  event |-> events[eventId],
                  asset_id |-> events[eventId].asset_id,
                  checklist |-> events[eventId].checklist,
                  items |-> initializeEditItems(events[eventId]), pressed |-> FALSE])
  /\ UNCHANGED <<nextEventId, nextFaultId>>
  /\ UNCHANGED <<connVars, signalVars, engineVars, storeVars, serverVars, envVars>>

OnForm == ui.screen \in {"check", "edit"}

\* setAnswer of both forms
setAnswer(i, answer) ==
  /\ OnForm /\ i \in DOMAIN ui.items
  /\ ui' = [ui EXCEPT !.items[i] =
              [@ EXCEPT !.answer = answer,
                        !.comment = IF answer = "YES" THEN "" ELSE @,
                        !.isValid = answer = "YES" \/ trim(ui.items[i].comment) # ""]]
  /\ UNCHANGED <<nextEventId, nextFaultId>>
  /\ UNCHANGED <<connVars, signalVars, engineVars, storeVars, serverVars, envVars>>

\* the comment box of an item changes (two-way binding), then validateItem
commentInput(i, comment) ==
  /\ OnForm /\ i \in DOMAIN ui.items
  /\ ui' = [ui EXCEPT !.items[i] =
              [@ EXCEPT !.comment = comment,
                        !.isValid = validateCheckResponse(ui.items[i].answer, comment)]]
  /\ UNCHANGED <<nextEventId, nextFaultId>>
  /\ UNCHANGED <<connVars, signalVars, engineVars, storeVars, serverVars, envVars>>

\* PreShiftCheckComponent.submitCheck from the form: returns at once when
\* canSubmit() is false, else saves the event and its faults, starts
\* syncQueue() and leaves the form
submitForm ==
  LET nos == noFormItems(ui.items, 1)
  IN  /\ ui.screen = "check"
      /\ IF ~canSubmit(ui.items)
         THEN /\ ui' = [ui EXCEPT !.pressed = TRUE]
              /\ UNCHANGED <<nextEventId, nextFaultId, storeVars, drains>>
         ELSE /\ nextFaultId + Len(nos) <= MaxFormFaults + 1
              /\ CanCallSyncQueue
              /\ events' = put(events, nextEventId,
                               createFormEvent(nextEventId, ui.asset_id, ui.checklist,
                                               ui.items, nextEventId))
              /\ faults' = saveFormFaults(faults, nos, nextFaultId, ui.asset_id,
                                          nextEventId, ui.checklist)
              /\ pendingEventsCount' = countPending(events')
              /\ pendingFaultsCount' = countPending(faults')
              /\ nextEventId' = nextEventId + 1
              /\ nextFaultId' = nextFaultId + Len(nos)
              /\ drains' = syncQueue(drains, NoCaller)
              /\ ui' = OtherScreen
              /\ UNCHANGED <<lastFailedChecks, localAssets, localChecklists,
                             reporterName, lastSyncAt>>
      /\ UNCHANGED <<syncState, syncMessage, syncInProgress, runs>>
      /\ cacheStats' = IF ~canSubmit(ui.items) THEN cacheStats
                       ELSE refreshCacheStats(localAssets, localChecklists, events', faults')
      /\ UNCHANGED <<boot, isInitialized, signalReporterName, signalLastSyncAt>>
      /\ UNCHANGED <<connVars, serverVars, envVars>>

\* EditCheckComponent.saveChanges from the form
saveForm ==
  LET nos == noFormItems(ui.items, 1)
      updatedEvent == [ui.event EXCEPT
                         !.responses = buildResponses(ui.items),
                         !.result = IF willPass(ui.items) THEN "PASS" ELSE "FAIL",
                         !.sync_status = "PENDING"]
  IN  /\ ui.screen = "edit"
      /\ IF ~canSubmit(ui.items)
         THEN /\ ui' = [ui EXCEPT !.pressed = TRUE]
              /\ UNCHANGED <<nextFaultId, storeVars>>
         ELSE /\ nextFaultId + Len(nos) <= MaxFormFaults + 1
              /\ events' = put(events, updatedEvent.id, updatedEvent)
              /\ faults' = saveFormFaults(deleteFaultsOfEvent(faults, updatedEvent.id), nos,
                                          nextFaultId, ui.event.asset_id, updatedEvent.id,
                                          ui.event.checklist)
              /\ pendingEventsCount' = countPending(events')
              /\ pendingFaultsCount' = countPending(faults')
              /\ nextFaultId' = nextFaultId + Len(nos)
              /\ ui' = OtherScreen
              /\ UNCHANGED <<lastFailedChecks, localAssets, localChecklists,
                             reporterName, lastSyncAt>>
      /\ UNCHANGED nextEventId
      /\ cacheStats' = IF ~canSubmit(ui.items) THEN cacheStats
                       ELSE refreshCacheStats(localAssets, localChecklists, events',
                                              IF nos = <<>> THEN faults ELSE faults')
      /\ UNCHANGED <<boot, isInitialized, signalReporterName, signalLastSyncAt>>
      /\ UNCHANGED <<connVars, engineVars, serverVars, envVars>>

\* goBack of both forms
leaveForm ==
  /\ OnForm
  /\ ui' = OtherScreen
  /\ UNCHANGED <<nextEventId, nextFaultId>>
  /\ UNCHANGED <<connVars, signalVars, engineVars, storeVars, serverVars, envVars>>

NextForm ==
  \/ \E a \in Assets : \E checklist \in ChecklistVersions : loadData(a, checklist)
  \/ \E e \in EventIds : openEditForm(e)
  \/ \E i \in Items : \E answer \in {"YES", "NO"} : setAnswer(i, answer)
  \/ \E i \in Items : \E comment \in Comments : commentInput(i, comment)
  \/ submitForm
  \/ saveForm
  \/ leaveForm

SpecForm == InitSynced /\ [][NextForm]_vars

\* ------------------------------------------------------------------ check form, properties
\* the positions of the responses of an event answered NO
NoAnswers(event) == {r \in DOMAIN event.responses : event.responses[r].answer = "NO"}

\* the faults stored for an event
FaultsOf(eventId) == {k \in DOMAIN faults : faults[k].source_event_id = eventId}

\* the checklist item of the event's snapshot a response answers
ItemOf(event, r) ==
  event.checklist[CHOOSE c \in DOMAIN event.checklist :
                    event.checklist[c].item_id = event.responses[r].item_id]

\* C18: for every stored event with K answers NO there are exactly K faults
\* of that event, one per NO answer, each OPEN, of origin PRE_SHIFT_CHECK,
\* PENDING, with the priority of the checklist item of that answer and a
\* description made of the item's text and the answer's comment; an item that
\* is in no checklist gets priority MED
FaultsDerived ==
  /\ \A k \in DOMAIN faults : faults[k].source_event_id \in DOMAIN events
  /\ \A e \in DOMAIN events :
       /\ Cardinality(FaultsOf(e)) = Cardinality(NoAnswers(events[e]))
       /\ \A k \in FaultsOf(e) :
            /\ faults[k].status = "OPEN"
            /\ faults[k].origin = "PRE_SHIFT_CHECK"
            /\ faults[k].sync_status = "PENDING"
       /\ \A r \in NoAnswers(events[e]) :
            Cardinality({k \in FaultsOf(e) :
              /\ faults[k].priority = ItemOf(events[e], r).priority
              /\ faults[k].description =
                   <<ItemOf(events[e], r).text, " - ", events[e].responses[r].comment>>}) = 1
  /\ \A checklist \in ChecklistVersions : \A i \in Items :
       (\A c \in DOMAIN checklist : checklist[c].item_id # i) =>
         priorityOf(checklist, i) = "MED"

\* an edit replaced the single fault of a check by two: both answers are NO
\* and the faults carry the priorities of the two items
TwoFaultsAfterEdit ==
  /\ DOMAIN events = {1} /\ Cardinality(NoAnswers(events[1])) = 2
  /\ DOMAIN faults = {2, 3}
  /\ {faults[2].priority, faults[3].priority} = {"HIGH", "LOW"}

\* C19: a stored event has result PASS exactly when every one of its
\* responses is answered YES (so also when it has no responses), and FAIL
\* otherwise
ResultIffAllYes ==
  \A e \in DOMAIN events :
    /\ events[e].result \in {"PASS", "FAIL"}
    /\ events[e].result = "PASS" <=>
         \A r \in DOMAIN events[e].responses : events[e].responses[r].answer = "YES"

\* a check of a checklist without items was stored: no responses, PASS
EmptyCheckPasses ==
  \E e \in DOMAIN events : events[e].responses = <<>> /\ events[e].result = "PASS"

\* a comment that is empty or only white space
Blank(comment) == comment \in {"", " "}

\* a form with an unanswered item or a NO answer without a real comment
Incomplete(items) ==
  \E i \in DOMAIN items :
    \/ items[i].answer = NULL
    \/ items[i].answer = "NO" /\ Blank(items[i].comment)

\* C20: while an item of the form is unanswered or a NO answer has an empty
\* or white-space comment no step writes to the local store, and
\* validateCheckResponse is false for NO with such a comment and true for
\* every YES
RejectsIncomplete ==
  /\ [](\A comment \in Comments :
          /\ validateCheckResponse("YES", comment)
          /\ validateCheckResponse("NO", comment) <=> ~Blank(comment))
  /\ [][OnForm /\ Incomplete(ui.items) => UNCHANGED storeVars]_vars

\* the button of the check form was pressed with a NO answer whose comment is
\* white space: the form is still open and nothing is stored
BlankCommentRejected ==
  /\ ui.screen = "check" /\ ui.pressed
  /\ \E i \in DOMAIN ui.items : ui.items[i].answer = "NO" /\ ui.items[i].comment = " "
  /\ events = EmptyTable /\ faults = EmptyTable

\* ------------------------------------------------------------------ upload order
\* drain q arrives at position `to` in this step
Enters(q, to) == drains[q].pc # to /\ drains'[q].pc = to

\* C21: within one syncQueue() invocation the fault batch is issued only after
\* the read of the pending faults, which follows either an empty read of the
\* pending events or the step that marks every event of the uploaded batch
\* SYNCED or ERROR, which in turn follows the event upload; the server's
\* faults change only in the upload step of a fault batch
EventsBeforeFaults ==
  [][/\ \A q \in Drains :
          /\ Enters(q, "postFaults") => drains[q].pc = "getPendingFaults"
          /\ Enters(q, "getPendingFaults") =>
               \/ /\ drains[q].pc = "eventsResponse"
                  /\ \A i \in DOMAIN drains[q].events :
                       drains[q].events[i].id \in DOMAIN events' =>
                         events'[drains[q].events[i].id].sync_status \in {"SYNCED", "ERROR"}
               \/ /\ drains[q].pc = "getPendingEvents"
                  /\ drains'[q].events = <<>>
          /\ Enters(q, "eventsResponse") => drains[q].pc = "postEvents"
     /\ srvFaults' # srvFaults =>
          \E q \in Drains : drains[q].pc = "postFaults" /\ drains'[q].pc # "postFaults"]_vars

\* a drain has sent its fault batch after its event batch: the events it
\* uploaded are stored on the server and marked SYNCED
FaultsSentAfterEvents ==
  \E q \in Drains :
    /\ drains[q].pc = "faultsResponse"
    /\ drains[q].events # <<>> /\ drains[q].faults # <<>>
    /\ \A i \in DOMAIN drains[q].events :
         /\ drains[q].events[i].id \in DOMAIN srvEvents
         /\ events[drains[q].events[i].id].sync_status = "SYNCED"

\* ------------------------------------------------------------------ initialization
\* the application starts on a device whose store may hold a reporter, a
\* last sync time and a check waiting for upload; the signals hold the
\* values of their declarations
InitBoot ==
  /\ navigatorOnLine = FALSE
  /\ isOnline = FALSE
  /\ autoSyncIntervalId = FALSE
  /\ activeTimers = 0
  /\ probes = [w \in BOOLEAN |-> 0]
  /\ edgeSyncs = 0
  /\ syncState = "idle"
  /\ syncMessage = MsgNone
  /\ syncInProgress = FALSE
  /\ drains = [q \in Drains |-> IdleDrain]
  /\ runs = [r \in Runs |-> IdleRun]
  /\ events \in {EmptyTable, put(EmptyTable, 1, createEvent(1, "a1", FailedCheck, 1))}
  /\ faults = EmptyTable
  /\ lastFailedChecks = EmptyTable
  /\ localAssets \in {{}, Assets}
  /\ localChecklists = {}
  /\ reporterName \in {NULL, ReporterName}
  /\ lastSyncAt \in BOOLEAN
  /\ pendingEventsCount = 0
  /\ pendingFaultsCount = 0
  /\ srvEvents = EmptyTable
  /\ srvFaults = EmptyTable
  /\ srvClock = ServerStart
  /\ srvRequest = NoRequest
  /\ srvReply = NoReply
  /\ ui = OtherScreen
  /\ nextEventId = 1
  /\ nextFaultId = 1
  /\ calm = FALSE
  /\ failures = 0
  /\ boot = BootStart
  /\ isInitialized = FALSE
  /\ signalReporterName = NULL
  /\ signalLastSyncAt = FALSE
  /\ cacheStats = refreshCacheStats({}, {}, EmptyTable, EmptyTable)

\* Promise.race is still pending: initWithTimeout() has not settled and the
\* timer has not fired
RacePending == boot.timer = "armed" /\ boot.main \notin {"done", "rejected"}

\* the catch block of initializeSignals up to its first await
StartFallback(b) == [b EXCEPT !.fallback = IF b.isOpen THEN "lastSyncAt" ELSE "open"]

bootFrame ==
  UNCHANGED <<connVars, engineVars, serverVars, userVars, envVars, events, faults,
              lastFailedChecks, localAssets, localChecklists, reporterName, lastSyncAt>>

\* db.open() succeeds: every caller awaiting it goes on to loadAppMeta()
Open_resolves ==
  /\ ~boot.isOpen
  /\ boot.main = "open" \/ boot.fallback = "open"
  /\ boot' = [boot EXCEPT !.isOpen = TRUE,
                          !.main = IF @ = "open" THEN "lastSyncAt" ELSE @,
                          !.fallback = IF @ = "open" THEN "lastSyncAt" ELSE @]
  /\ UNCHANGED <<isInitialized, signalReporterName, signalLastSyncAt, cacheStats,
                 pendingEventsCount, pendingFaultsCount>>
  /\ bootFrame

\* db.open() fails: initWithTimeout() rejects, which enters the catch block
\* when the race is pending; a fallback awaiting open() gives up
Open_rejects ==
  /\ ~boot.isOpen
  /\ boot.main = "open" \/ boot.fallback = "open"
  /\ LET gaveUp == boot.fallback = "open"
         settled == [boot EXCEPT !.main = IF @ = "open" THEN "rejected" ELSE @,
                                 !.fallback = IF @ = "open" THEN "done" ELSE @]
     IN  /\ boot' = IF RacePending THEN StartFallback(settled) ELSE settled
         /\ isInitialized' = (isInitialized \/ gaveUp)
  /\ UNCHANGED <<signalReporterName, signalLastSyncAt, cacheStats,
                 pendingEventsCount, pendingFaultsCount>>
  /\ bootFrame

\* the five seconds are over: the race rejects unless it is settled
Timeout ==
  /\ boot.timer = "armed"
  /\ boot' = IF RacePending THEN StartFallback([boot EXCEPT !.timer = "fired"])
             ELSE [boot EXCEPT !.timer = "fired"]
  /\ UNCHANGED <<isInitialized, signalReporterName, signalLastSyncAt, cacheStats,
                 pendingEventsCount, pendingFaultsCount>>
  /\ bootFrame

\* getMeta(key): the stored value, null when the read fails
getMeta(value, none, ok) == IF ok THEN value ELSE none

\* loadAppMeta() of initWithTimeout(): one getMeta() returns
LoadAppMeta_main(ok) ==
  /\ boot.main \in {"lastSyncAt", "reporterName"}
  /\ IF boot.main = "lastSyncAt"
     THEN /\ boot' = [boot EXCEPT !.main = "reporterName",
                                  !.mainLastSync = getMeta(lastSyncAt, FALSE, ok)]
          /\ UNCHANGED <<signalReporterName, signalLastSyncAt>>
     ELSE /\ boot' = [boot EXCEPT !.main = "counts", !.mainLastSync = FALSE]
          /\ signalLastSyncAt' = boot.mainLastSync
          /\ signalReporterName' = getMeta(reporterName, NULL, ok)
  /\ UNCHANGED <<isInitialized, cacheStats, pendingEventsCount, pendingFaultsCount>>
  /\ bootFrame

\* Promise.all([refreshPendingCounts(), refreshCacheStats()]) returns, each
\* having published its counts unless its read failed; the race resolves
\* when it is pending
LoadCounts(pendingOk, statsOk) ==
  /\ boot.main = "counts"
  /\ boot' = [boot EXCEPT !.main = "done"]
  /\ pendingEventsCount' = IF pendingOk THEN countPending(events) ELSE pendingEventsCount
  /\ pendingFaultsCount' = IF pendingOk THEN countPending(faults) ELSE pendingFaultsCount
  /\ cacheStats' = IF statsOk
                   THEN refreshCacheStats(localAssets, localChecklists, events, faults)
                   ELSE cacheStats
  /\ isInitialized' = (isInitialized \/ RacePending)
  /\ UNCHANGED <<signalReporterName, signalLastSyncAt>>
  /\ bootFrame

\* loadAppMeta() of the catch block: one getMeta() returns; after the second
\* the signals are set and _isInitialized.set(true)
LoadAppMeta_fallback(ok) ==
  /\ boot.fallback \in {"lastSyncAt", "reporterName"}
  /\ IF boot.fallback = "lastSyncAt"
     THEN /\ boot' = [boot EXCEPT !.fallback = "reporterName",
                                  !.fallbackLastSync = getMeta(lastSyncAt, FALSE, ok)]
          /\ UNCHANGED <<signalReporterName, signalLastSyncAt, isInitialized>>
     ELSE /\ boot' = [boot EXCEPT !.fallback = "done", !.fallbackLastSync = FALSE]
          /\ signalLastSyncAt' = boot.fallbackLastSync
          /\ signalReporterName' = getMeta(reporterName, NULL, ok)
          /\ isInitialized' = TRUE
  /\ UNCHANGED <<cacheStats, pendingEventsCount, pendingFaultsCount>>
  /\ bootFrame

NextBoot ==
  \/ Open_resolves
  \/ Open_rejects
  \/ Timeout
  \/ \E ok \in BOOLEAN : LoadAppMeta_main(ok)
  \/ \E pendingOk, statsOk \in BOOLEAN : LoadCounts(pendingOk, statsOk)
  \/ \E ok \in BOOLEAN : LoadAppMeta_fallback(ok)

\* the timer fires; nothing makes the storage answer
SpecBoot == InitBoot /\ [][NextBoot]_vars /\ WF_vars(Timeout)

\* C22: initializeSignals() always ends: _isInitialized becomes true whatever
\* the storage does, and a reporter name that was loaded stays in its signal.
InitializationEnds == <>isInitialized

\* a reporter name published by loadAppMeta() is not taken back
ReporterStaysReadable ==
  [][signalReporterName # NULL => signalReporterName' # NULL]_vars

\* the batch a drain has just read is the records of the table that wait
\* for upload, each once and as stored
ReadsWaiting(batch, table) ==
  /\ {batch[i].id : i \in DOMAIN batch} =
       {k \in DOMAIN table : table[k].sync_status \in {"PENDING", "ERROR"}}
  /\ Len(batch) = Cardinality({batch[i].id : i \in DOMAIN batch})
  /\ \A i \in DOMAIN batch : batch[i] = table[batch[i].id]

\* the records of the server's table that a step wrote
Written(old, new) == {k \in DOMAIN new : k \notin DOMAIN old \/ new[k] # old[k]}

\* C23: a drain uploads exactly the local events, then the local faults,
\* whose sync_status is PENDING or ERROR when it reads them: records marked
\* ERROR are read again by the next drain, no record read as SYNCED is in a
\* batch, and the server receives nothing but the batch.
UploadsWaitingRecords ==
  [][\A q \in Drains :
       /\ Enters(q, "postEvents") => /\ ReadsWaiting(drains'[q].events, events)
                                     /\ drains[q].pc = "getPendingEvents"
       /\ Enters(q, "getPendingFaults") /\ drains[q].pc = "getPendingEvents" =>
            ReadsWaiting(<<>>, events)
       /\ Enters(q, "postFaults") => ReadsWaiting(drains'[q].faults, faults)
       /\ drains[q].pc = "postEvents" /\ drains'[q].pc # "postEvents" =>
            /\ Written(srvEvents, srvEvents') \subseteq SeqIds(drains[q].events)
            /\ \A i \in DOMAIN drains[q].events :
                 drains[q].events[i].sync_status # "SYNCED"
       /\ drains[q].pc = "postFaults" /\ drains'[q].pc # "postFaults" =>
            /\ Written(srvFaults, srvFaults') \subseteq SeqIds(drains[q].faults)
            /\ \A i \in DOMAIN drains[q].faults :
                 drains[q].faults[i].sync_status # "SYNCED"]_vars

\* a drain is about to upload an event that an earlier upload left as ERROR
ErrorUploadedAgain ==
  \E q \in Drains :
    /\ drains[q].pc = "postEvents"
    /\ \E i \in DOMAIN drains[q].events : drains[q].events[i].sync_status = "ERROR"

\* ------------------------------------------------------------------ the guards of syncQueue
\* a client that completed its first initialSync, with or without a
\* reporter name saved
InitGuard ==
  /\ navigatorOnLine = TRUE
  /\ isOnline = TRUE
  /\ autoSyncIntervalId = TRUE
  /\ activeTimers = 1
  /\ probes = [w \in BOOLEAN |-> 0]
  /\ edgeSyncs = 1
  /\ syncState = "success"
  /\ syncMessage = MsgCompleted
  /\ syncInProgress = FALSE
  /\ drains = [q \in Drains |-> IdleDrain]
  /\ runs = [r \in Runs |-> IdleRun]
  /\ events = EmptyTable
  /\ faults = EmptyTable
  /\ lastFailedChecks = EmptyTable
  /\ localAssets = Assets
  /\ localChecklists = {c \in DOMAIN Checklists : Checklists[c] = "ACTIVE"}
  /\ reporterName \in {NULL, ReporterName}
  /\ lastSyncAt = TRUE
  /\ pendingEventsCount = 0
  /\ pendingFaultsCount = 0
  /\ srvEvents = EmptyTable
  /\ srvFaults = EmptyTable
  /\ srvClock = ServerStart
  /\ srvRequest = NoRequest
  /\ srvReply = NoReply
  /\ ui = OtherScreen
  /\ nextEventId = 1
  /\ nextFaultId = 1
  /\ calm = FALSE
  /\ failures = 0
  /\ SignalsLoaded

NextGuard ==
  \/ \E a \in Assets : submitCheck(a, FailedCheck)
  \/ saveReporter
  \/ manualSync
  \/ OfflineEvent
  \/ RunNext
  \/ DrainNext
  \/ \E q \in Drains : SyncQueue_return(q)

SpecGuard == InitGuard /\ [][NextGuard]_vars

\* the sync_status of every stored record is left as it is
StatusKept(old, new) ==
  \A k \in DOMAIN old \cap DOMAIN new : new[k].sync_status = old[k].sync_status

\* C24: a syncQueue() called while the online state is false goes no
\* further than its guards, and one that finds no reporter stored returns
\* there: neither sets syncInProgress, sends a request or changes a
\* sync_status; only an invocation that passed both guards does.
GuardsStopTheDrain ==
  [][/\ \A q \in Drains :
          /\ ~isOnline /\ drains[q].pc = "idle" => drains'[q].pc = "idle"
          /\ drains[q].pc = "getReporter" /\ drains'[q].pc # "getReporter"
               /\ reporterName = NULL =>
               /\ drains'[q].pc = "returned"
               /\ syncInProgress' = syncInProgress
               /\ srvEvents' = srvEvents /\ srvFaults' = srvFaults
               /\ StatusKept(events, events') /\ StatusKept(faults, faults')
          /\ Enters(q, "getPendingEvents") =>
               drains[q].pc = "getReporter" /\ reporterName # NULL
     /\ ~syncInProgress /\ syncInProgress' =>
          \E q \in Drains : Enters(q, "getPendingEvents")
     /\ \/ srvEvents' # srvEvents \/ srvFaults' # srvFaults
        \/ ~StatusKept(events, events') \/ ~StatusKept(faults, faults')
        => \E q \in Drains :
             drains[q].pc \notin {"idle", "getReporter", "returned"}]_vars

\* a check was submitted while the online state was false: its syncQueue()
\* call returned at the guard, the check waits and nothing was sent
StoppedAtTheGuard ==
  /\ ~isOnline
  /\ failures = 0
  /\ countPending(events) > 0
  /\ srvEvents = EmptyTable
  /\ ~syncInProgress
  /\ \A q \in Drains : drains[q].pc = "idle"

\* ------------------------------------------------------------------ refresh after upload
\* the synced client with two assets in its cache: both were on the server's
\* list when it synced, the server returns the first one only from now on
InitRefresh ==
  /\ navigatorOnLine = TRUE
  /\ isOnline = TRUE
  /\ autoSyncIntervalId = TRUE
  /\ activeTimers = 1
  /\ probes = [w \in BOOLEAN |-> 0]
  /\ edgeSyncs = 1
  /\ syncState = "success"
  /\ syncMessage = MsgCompleted
  /\ syncInProgress = FALSE
  /\ drains = [q \in Drains |-> IdleDrain]
  /\ runs = [r \in Runs |-> IdleRun]
  /\ events = EmptyTable
  /\ faults = EmptyTable
  /\ lastFailedChecks = EmptyTable
  /\ localAssets = HistoryAssets
  /\ localChecklists = {c \in DOMAIN Checklists : Checklists[c] = "ACTIVE"}
  /\ reporterName = ReporterName
  /\ lastSyncAt = TRUE
  /\ pendingEventsCount = 0
  /\ pendingFaultsCount = 0
  /\ srvEvents = EmptyTable
  /\ srvFaults = EmptyTable
  /\ srvClock = ServerStart
  /\ srvRequest = NoRequest
  /\ srvReply = NoReply
  /\ ui = OtherScreen
  /\ nextEventId = 1
  /\ nextFaultId = 1
  /\ calm = FALSE
  /\ failures = 0
  /\ SignalsLoaded

NextRefresh ==
  \/ \E a \in HistoryAssets : \E responses \in ResponseSeqs : submitCheck(a, responses)
  \/ manualSync
  \/ RunNext
  \/ DrainNext
  \/ \E q \in Drains : SyncQueue_return(q)

SpecRefresh == InitRefresh /\ [][NextRefresh]_vars

AssetsOf(batch) == {batch[i].asset_id : i \in DOMAIN batch}
SeqSet(s) == {s[i] : i \in DOMAIN s}

\* the records of a table that a step added, removed or changed
Touched(old, new) ==
  {k \in DOMAIN old \cup DOMAIN new :
     k \notin DOMAIN old \/ k \notin DOMAIN new \/ old[k] # new[k]}

EndsWithSuccess(r) == runs[r].pc = "setMeta" /\ runs'[r].pc = "returned"

\* C26: when an initialSync() ends with the success state, the cache of last
\* failed checks holds, for the assets of the fetched list, exactly the
\* events the server returned to that run, and nothing else.
CacheIsServersAnswer ==
  [][\A r \in Runs : EndsWithSuccess(r) => lastFailedChecks' = runs[r].answers]_vars

\* C27: when an initialSync() ends with the success state, the stored assets
\* are the assets the server returned to that run, an asset it no longer
\* returns being removed, and the stored checklists are the ACTIVE checklists
\* of the response.
StoreMirrorsServer ==
  [][\A r \in Runs :
       EndsWithSuccess(r) =>
         /\ localAssets' = runs[r].assets
         /\ localChecklists' = {c \in DOMAIN Checklists : Checklists[c] = "ACTIVE"}]_vars

\* ------------------------------------------------------------------ published counts
\* C28: between two operations of the store the published counts are the
\* counts of the stored records: the pending counts are the numbers of
\* events and faults marked PENDING or ERROR, and the cache statistics are
\* the numbers of stored assets, checklists, events and faults.
CountsMatchStore ==
  /\ pendingEventsCount =
       Cardinality({k \in DOMAIN events : events[k].sync_status \in {"PENDING", "ERROR"}})
  /\ pendingFaultsCount =
       Cardinality({k \in DOMAIN faults : faults[k].sync_status \in {"PENDING", "ERROR"}})
  /\ cacheStats.assets = Cardinality(localAssets)
  /\ cacheStats.checklists = Cardinality(localChecklists)
  /\ cacheStats.events = Cardinality(DOMAIN events)
  /\ cacheStats.faults = Cardinality(DOMAIN faults)

\* ------------------------------------------------------------------ deleting a check
\* ids of a failed check and its fault that were stored before the session
StoredEventId == MaxEvents + 1
StoredFaultId == MaxFaults + 1

\* the synced client with one failed check of an earlier session, and its
\* fault, still waiting for upload
InitDelete ==
  /\ navigatorOnLine = TRUE
  /\ isOnline = TRUE
  /\ autoSyncIntervalId = TRUE
  /\ activeTimers = 1
  /\ probes = [w \in BOOLEAN |-> 0]
  /\ edgeSyncs = 1
  /\ syncState = "success"
  /\ syncMessage = MsgCompleted
  /\ syncInProgress = FALSE
  /\ drains = [q \in Drains |-> IdleDrain]
  /\ runs = [r \in Runs |-> IdleRun]
  /\ events = put(EmptyTable, StoredEventId, createEvent(StoredEventId, "a1", FailedCheck, 0))
  /\ faults = put(EmptyTable, StoredFaultId,
                  createFault(StoredFaultId, "a1", StoredEventId, 1))
  /\ lastFailedChecks = EmptyTable
  /\ localAssets = Assets
  /\ localChecklists = {c \in DOMAIN Checklists : Checklists[c] = "ACTIVE"}
  /\ reporterName = ReporterName
  /\ lastSyncAt = TRUE
  /\ pendingEventsCount = 1
  /\ pendingFaultsCount = 1
  /\ srvEvents = EmptyTable
  /\ srvFaults = EmptyTable
  /\ srvClock = ServerStart
  /\ srvRequest = NoRequest
  /\ srvReply = NoReply
  /\ ui = OtherScreen
  /\ nextEventId = 1
  /\ nextFaultId = 1
  /\ calm = FALSE
  /\ failures = 0
  /\ SignalsLoaded

NextDelete ==
  \/ \E a \in Assets : \E responses \in ResponseSeqs : submitCheck(a, responses)
  \/ OpenPending
  \/ LeavePending
  \/ \E e \in EventIds \cup {StoredEventId} : deleteEvent(e)
  \/ DrainNext
  \/ \E q \in Drains : SyncQueue_return(q)

SpecDelete == InitDelete /\ [][NextDelete]_vars

SyncedMatchesServer ==
  \A k \in DOMAIN events :
    events[k].sync_status = "SYNCED" =>
      /\ k \in DOMAIN srvEvents
      /\ srvEvents[k].responses = events[k].responses
      /\ srvEvents[k].result = events[k].result

\* ------------------------------------------------------------------ reported outcome
TransportErrors == {NetworkError, TimeoutError}

\* C31: an initialSync() whose queue drain marked its batch ERROR after a
\* transport failure does not end with the state 'success' and the message
\* 'Sync completed'.
SuccessMeansUploaded ==
  [][\A r \in Runs :
       EndsWithSuccess(r) /\ syncState' = "success" /\ syncMessage' = MsgCompleted
         => runs[r].uploadError \notin TransportErrors]_vars

\* C32: a fetch of the last failed check that fails removes no cached
\* unresolved failure: the cache loses an entry only in a step in which the
\* server answered.
FailedFetchKeepsEntry ==
  [][failures' # failures => DOMAIN lastFailedChecks \subseteq DOMAIN lastFailedChecks']_vars

\* ------------------------------------------------------------------ deleted records
\* C33: a fault that updateFaults() deleted stays deleted: the local store
\* gains only faults with new ids, and an upload stores on the server only
\* faults that the local store still holds.
DeletedFaultsStayDeleted ==
  [][/\ \A k \in DOMAIN faults' \ DOMAIN faults : k >= nextFaultId
     /\ \A k \in DOMAIN srvFaults' \ DOMAIN srvFaults : k \in DOMAIN faults]_vars

\* C34: an event deleted with deleteEvent() never reappears: the local events
\* gain only events with new ids, and after every step each entry of the
\* last-failed-check cache is an event that the local store still holds.
DeletedEventStaysDeleted ==
  [][/\ \A k \in DOMAIN events' \ DOMAIN events : k >= nextEventId
     /\ \A a \in DOMAIN lastFailedChecks' : lastFailedChecks'[a].id \in DOMAIN events']_vars

\* ------------------------------------------------------------------ reentrancy flag
\* the positions of a syncQueue() between setting the flag and its finally
Holding(q) == drains[q].pc \notin {"idle", "getReporter", "returned"}

\* C35: the reentrancy flag is released by every syncQueue() that set it,
\* whether its uploads succeeded or threw: the flag is false whenever no
\* invocation is between setting it and returning.
FlagReleased == (\A q \in Drains : ~Holding(q)) => ~syncInProgress

FlagReleasedAfterThrow ==
  /\ \E q \in Drains : drains[q].pc = "returned" /\ drains[q].error # NoError
  /\ \A q \in Drains : ~Holding(q)
  /\ ~syncInProgress

\* C36: whenever the reentrancy flag is set, the published sync state is
\* 'syncing': nothing sets it to 'success' or 'error' before the drain that
\* holds the flag has finished.
SyncingWhileInProgress == syncInProgress => syncState = "syncing"

\* ------------------------------------------------------------------ going offline
\* C37: after a browser 'offline' event the online state stays false and no
\* auto-sync timer is active until a probe started after the event succeeds.
\* While navigator.onLine is false checkConnectivity() starts no probe, so
\* every probe that returns then was in flight at the event: it neither sets
\* the state online nor starts a sync or a timer.
StaleProbeIgnored ==
  [][~navigatorOnLine /\ ProbeReturns =>
       ~isOnline' /\ activeTimers' = 0 /\ ~StartsInitialSync]_vars

\* ------------------------------------------------------------------ frame of a sync
\* a step of a running initialSync() or syncQueue(): a continuation after one
\* of its awaits
SyncStep ==
  \/ \E q \in Drains : drains[q].pc # "idle" /\ drains'[q].pc # drains[q].pc
  \/ \E q \in Drains : drains[q].pc # "idle" /\ drains'[q].todo # drains[q].todo
  \/ \E r \in Runs : runs[r].pc # "idle" /\ runs'[r].pc # runs[r].pc
  \/ \E r \in Runs : runs[r].pc # "idle" /\ runs'[r].todo # runs[r].todo

\* an event without the fields that a sync writes
EventFrame(e) == [e EXCEPT !.sync_status = "PENDING", !.last_error = NoError]

\* C38: a sync never loses or rewrites a local event: a step of initialSync()
\* or syncQueue(), cache refreshes included, deletes no local event and
\* changes no field of one other than sync_status and last_error.
SyncKeepsEvents ==
  [][SyncStep =>
       \A k \in DOMAIN events :
         k \in DOMAIN events' /\ EventFrame(events'[k]) = EventFrame(events[k])]_vars

SyncMarkedEvents ==
  \E k \in DOMAIN events :
    /\ events[k].sync_status = "ERROR"
    /\ events[k].last_error \in TransportErrors
    /\ events[k].result = calculateCheckResult(events[k].responses)

\* ------------------------------------------------------------------ frame of a fault refresh
\* the step in which drain q replaces the synced faults of asset a by the
\* server's answer
Replaces(q, a) ==
  /\ drains[q].pc = "refreshFaults" /\ drains'[q].pc = "refreshLastFailed"
  /\ Head(drains[q].todo) = a
  /\ failures' = failures

SyncedOf(table, a) ==
  {k \in DOMAIN table : table[k].asset_id = a /\ table[k].sync_status = "SYNCED"}

\* C39: replaceSyncedFaultsForAsset(a, serverFaults) changes no local fault
\* that is PENDING or ERROR and no fault of another asset; afterwards the
\* SYNCED faults of a are exactly serverFaults.
ReplaceKeepsUnsentFaults ==
  [][\A q \in Drains : \A a \in Assets :
       Replaces(q, a) =>
         /\ \A k \in DOMAIN faults :
              faults[k].sync_status # "SYNCED" \/ faults[k].asset_id # a
                => k \in DOMAIN faults' /\ faults'[k] = faults[k]
         /\ SyncedOf(faults', a) = SeqSet(idsOf(openFaultsByAsset(srvFaults, a)))]_vars

====
